---------------------------- MODULE Spec2Model ----------------------------
(***************************************************************************)
(* A model of the simulation core of holeio_modern: the Hole entity, the   *)
(* world objects, the spatial grid, the swallow/combat resolver and the    *)
(* per-frame pass order of update_game.                                    *)
(*                                                                         *)
(* Numbers.  The program computes in f32.  Here every quantity is an       *)
(* integer in a fixed unit, and every operation rounds down:               *)
(*   lengths (x, y, radius, size, width, height)  world units              *)
(*   areas and the growth value mass*multiplier   1/100 square unit        *)
(*   multipliers (growth_multiplier)              1/100                    *)
(*   times (dt and every timer)                   ticks of 0.1 second      *)
(* pi is 314/100, so that area/pi is area \div PI100 in square units.      *)
(***************************************************************************)
EXTENDS Integers, Sequences, FiniteSets, TLC

VARIABLES
    holes,      \* the holes array (GameSession.holes, or the holes a call is given)
    objects,    \* the objects array (World.objects)
    cells,      \* SpatialGrid.cells: cell coordinate -> sequence of object indices
    call,       \* the most recent call: its name, its arguments and what it returned
                \* (with the dash calls: the cooldown of the last dash that
                \* succeeded, the time the update calls have advanced since,
                \* and the number of dashes that succeeded)
    steps,      \* number of calls (or of frames) made so far
    sess        \* the rest of GameSession and AppState: mode, game state, clock,
                \* bot controllers

vars == <<holes, objects, cells, call, steps, sess>>

----------------------------------------------------------------------------
(* Bounds of the model *)

\* Calls of Hole methods explored from the fresh holes
MaxCalls == 4
\* Longest holes array handed to process_hole_combat
MaxHoles == 3
\* Longest objects array handed to the grid and to the per-hole calls
MaxObjects == 2
\* Bots of a session
MaxBots == 2
\* Frames simulated in a session
MaxFrames == 2
\* Calls made on a bot: BotController::update and update_falling_objects
MaxBotCalls == 3
MaxDuelCalls == 6
MaxBoardCalls == 5
MaxGenCalls == 4
\* Calls made on a GameClock
MaxClockCalls == 5
\* Frames simulated in a session that is played until its clock runs out
MaxLiveFrames == 12
\* Time shown on the results screen, in ticks, after which no frame is modelled
MaxResultsTime == 2
GenBlocks == 2
GenMisc == 3

----------------------------------------------------------------------------
(* Program constants *)

INITIAL_RADIUS == 25
MAX_RADIUS == 200
\* std::f32::consts::PI in hundredths
PI100 == 314
\* GROWTH_MULTIPLIER = 0.15 in hundredths
GROWTH_MULTIPLIER == 15
\* MARGIN = 1.2 of can_consume_hole, in tenths
MARGIN10 == 12
\* the 0.6 of overlaps_hole, in tenths
OVERLAP10 == 6
\* ModeRules::new(Classic).respawn_time = 3.0 s, in ticks
RESPAWN_TIME_CLASSIC == 30
\* ModeRules::new(Battle | Solo).respawn_time = 0.0
RESPAWN_TIME_NONE == 0
\* the 1.0 s of invincibility after a revival, in ticks
INVINCIBLE_TIME == 10
\* CELL_SIZE = 100.0
CELL_SIZE == 100
\* fall_speed = 3.0 per second: progress in tenths gained per tick
FALL_SPEED == 3
\* progress 1.0, in tenths
PROGRESS_ONE == 10
\* K_FIT = 0.92, in hundredths
K_FIT == 92
\* K_CAPTURE = 1.05, in hundredths
K_CAPTURE == 105

\* Settings::default: move_speed, units per second
MOVE_SPEED == 200
\* Settings::default: dash_cooldown 3.0 s and dash_duration 0.3 s, in ticks
DASH_COOLDOWN == 30
DASH_DURATION == 3
\* world/gen.rs: WORLD_WIDTH, WORLD_HEIGHT
WORLD_WIDTH == 2000
WORLD_HEIGHT == 2000
\* GameMode::round_duration: 120 s, 300 s, 120 s, in ticks
ROUND_CLASSIC == 1200
ROUND_BATTLE == 3000
ROUND_SOLO == 1200

----------------------------------------------------------------------------
(* Arithmetic helpers *)

Min(a, b) == IF a <= b THEN a ELSE b
Max(a, b) == IF a >= b THEN a ELSE b

RECURSIVE SqrtSearch(_, _, _)
\* the largest r in lo..hi with r*r <= n (lo*lo <= n is given)
SqrtSearch(n, lo, hi) ==
    IF lo >= hi THEN lo
    ELSE LET mid == (lo + hi + 1) \div 2
         IN  IF mid * mid <= n THEN SqrtSearch(n, mid, hi)
                               ELSE SqrtSearch(n, lo, mid - 1)

\* f32::sqrt, rounded down to a whole unit
Sqrt(n) == IF n <= 0 THEN 0 ELSE SqrtSearch(n, 0, Min(n, 46340))

\* (area / PI).sqrt()
RadiusOfArea(area) == Sqrt(area \div PI100)

\* PI * INITIAL_RADIUS * INITIAL_RADIUS
InitialArea == PI100 * INITIAL_RADIUS * INITIAL_RADIUS

\* x * 0.5
Half(x) == x \div 2

----------------------------------------------------------------------------
(* Hole *)

\* Hole::new
NewHole(x, y, isPlayer) ==
    [ x |-> x, y |-> y,
      radius |-> INITIAL_RADIUS,
      velocity |-> <<0, 0>>,
      is_player |-> isPlayer,
      is_alive |-> TRUE,
      area |-> InitialArea,
      score |-> 0,
      eliminations |-> 0,
      dash_cooldown |-> 0,
      dash_active |-> 0,
      respawn_timer |-> 0,
      invincible |-> 0 ]

\* a slip in grow: the new radius is not capped
GrowUncapped(h, mass, growth_multiplier) ==
    LET a == h.area + mass * growth_multiplier
    IN  [h EXCEPT !.area = a,
                  !.radius = RadiusOfArea(a),
                  !.score = h.score + 1]

\* a slip in grow: the gain replaces the area instead of adding to it
GrowReplacing(h, mass, growth_multiplier) ==
    LET a == mass * growth_multiplier
    IN  [h EXCEPT !.area = a,
                  !.radius = Min(RadiusOfArea(a), MAX_RADIUS),
                  !.score = h.score + 1]

\* Hole::grow
Grow(h, mass, growth_multiplier) ==
    LET a == h.area + mass * growth_multiplier
    IN  [h EXCEPT !.area = a,
                  !.radius = Min(RadiusOfArea(a), MAX_RADIUS),
                  !.score = h.score + 1]

\* Hole::consume_hole
ConsumeHole(h, other) ==
    LET a == h.area + Half(other.area)
    IN  [h EXCEPT !.area = a,
                  !.radius = Min(RadiusOfArea(a), MAX_RADIUS),
                  !.eliminations = h.eliminations + 1]

\* a slip in can_consume_hole: the margin is applied to the wrong side
CanConsumeHoleWrongSide(h, other) ==
    IF ~h.is_alive \/ ~other.is_alive THEN FALSE
    ELSE IF other.invincible > 0 THEN FALSE
    ELSE h.radius * MARGIN10 > other.radius * 10

\* a slip in can_consume_hole: the invincibility of the other hole is not asked
CanConsumeHoleInvincibleToo(h, other) ==
    IF ~h.is_alive \/ ~other.is_alive THEN FALSE
    ELSE h.radius * 10 > other.radius * MARGIN10

\* Hole::can_consume_hole
CanConsumeHole(h, other) ==
    IF ~h.is_alive \/ ~other.is_alive THEN FALSE
    ELSE IF other.invincible > 0 THEN FALSE
    ELSE h.radius * 10 > other.radius * MARGIN10

\* Hole::die
Die(h, respawn_time) ==
    [h EXCEPT !.is_alive = FALSE,
              !.respawn_timer = respawn_time,
              !.area = InitialArea,
              !.radius = INITIAL_RADIUS]

\* Vec2::normalize on a direction whose components are -1, 0 or 1; the result
\* is in thousandths (0.707 on a diagonal)
Normalize(vel) ==
    IF vel[1] # 0 /\ vel[2] # 0 THEN <<707 * vel[1], 707 * vel[2]>>
    ELSE <<1000 * vel[1], 1000 * vel[2]>>

\* Hole::set_velocity
SetVelocity(h, vel) ==
    IF vel # <<0, 0>> THEN [h EXCEPT !.velocity = Normalize(vel)]
    ELSE [h EXCEPT !.velocity = <<0, 0>>]

\* a slip in try_dash: a hole that stands still may dash
TryDashStandingStill(h, dash_cooldown, dash_duration) ==
    IF h.dash_cooldown <= 0
    THEN [hole |-> [h EXCEPT !.dash_cooldown = dash_cooldown,
                             !.dash_active = dash_duration],
          ret |-> TRUE]
    ELSE [hole |-> h, ret |-> FALSE]

\* a slip in try_dash: the cooldown is asked of the active timer
TryDashWhileCooling(h, dash_cooldown, dash_duration) ==
    IF h.dash_active <= 0 /\ h.velocity # <<0, 0>>
    THEN [hole |-> [h EXCEPT !.dash_cooldown = dash_cooldown,
                             !.dash_active = dash_duration],
          ret |-> TRUE]
    ELSE [hole |-> h, ret |-> FALSE]

\* Hole::try_dash: the hole after the call and the value returned.  A stored
\* velocity is zero or of length 1, so length() > 0.01 asks for non-zero.
TryDash(h, dash_cooldown, dash_duration) ==
    IF h.dash_cooldown <= 0 /\ h.velocity # <<0, 0>>
    THEN [hole |-> [h EXCEPT !.dash_cooldown = dash_cooldown,
                             !.dash_active = dash_duration],
          ret |-> TRUE]
    ELSE [hole |-> h, ret |-> FALSE]

\* a slip in the clamp: only the lower bound is enforced
ClampLowOnly(v, lo, hi) == IF v < lo THEN lo ELSE v

\* f32::clamp
Clamp(v, lo, hi) == IF v < lo THEN lo ELSE IF v > hi THEN hi ELSE v

\* a slip in Hole::update: a hole in its respawn countdown returns before the
\* countdown is advanced
HoleUpdateFrozenCountdown(h, dt, world_width, world_height, move_speed) ==
    LET t1 == IF h.dash_cooldown > 0 THEN [h EXCEPT !.dash_cooldown = @ - dt] ELSE h
        t2 == IF t1.dash_active > 0 THEN [t1 EXCEPT !.dash_active = @ - dt] ELSE t1
        t3 == IF t2.invincible > 0 THEN [t2 EXCEPT !.invincible = @ - dt] ELSE t2
    IN  IF t3.respawn_timer > 0
        THEN t3
        ELSE LET size_penalty == Min(t3.radius * 2, 150)
                 effective_speed == (move_speed * 1000) \div (1000 + size_penalty * 3)
                 dash_mult == IF t3.dash_active > 0 THEN 25 ELSE 10
                 nx == t3.x + (t3.velocity[1] * effective_speed * dash_mult * dt) \div 100000
                 ny == t3.y + (t3.velocity[2] * effective_speed * dash_mult * dt) \div 100000
             IN  [t3 EXCEPT !.x = Clamp(nx, t3.radius, world_width - t3.radius),
                            !.y = Clamp(ny, t3.radius, world_height - t3.radius)]

\* Hole::update: the timers, the revival at the end of the respawn countdown,
\* and the move.  size_penalty is in hundredths, effective_speed in units per
\* second, dash_mult in tenths.
HoleUpdate(h, dt, world_width, world_height, move_speed) ==
    LET t1 == IF h.dash_cooldown > 0 THEN [h EXCEPT !.dash_cooldown = @ - dt] ELSE h
        t2 == IF t1.dash_active > 0 THEN [t1 EXCEPT !.dash_active = @ - dt] ELSE t1
        t3 == IF t2.invincible > 0 THEN [t2 EXCEPT !.invincible = @ - dt] ELSE t2
    IN  IF t3.respawn_timer > 0
        THEN LET t4 == [t3 EXCEPT !.respawn_timer = @ - dt]
             IN  IF t4.respawn_timer <= 0
                 THEN [t4 EXCEPT !.is_alive = TRUE, !.invincible = INVINCIBLE_TIME]
                 ELSE t4
        ELSE LET size_penalty == Min(t3.radius * 2, 150)
                 effective_speed == (move_speed * 1000) \div (1000 + size_penalty * 3)
                 dash_mult == IF t3.dash_active > 0 THEN 25 ELSE 10
                 nx == t3.x + (t3.velocity[1] * effective_speed * dash_mult * dt) \div 100000
                 ny == t3.y + (t3.velocity[2] * effective_speed * dash_mult * dt) \div 100000
             IN  [t3 EXCEPT !.x = Clamp(nx, t3.radius, world_width - t3.radius),
                            !.y = Clamp(ny, t3.radius, world_height - t3.radius)]

\* Hole::respawn
Respawn(h, x, y) ==
    [h EXCEPT !.x = x, !.y = y, !.is_alive = TRUE, !.invincible = INVINCIBLE_TIME]

\* Hole::overlaps_hole.  dist < (r1 + r2) * 0.6 with dist = sqrt(dx*dx + dy*dy),
\* compared on the squares (both sides are non-negative).
OverlapsHole(h, other) ==
    LET dx == h.x - other.x
        dy == h.y - other.y
        reach == (h.radius + other.radius) * OVERLAP10
    IN  100 * (dx * dx + dy * dy) < reach * reach

\* Hole::can_capture_at.  dist <= radius * K_CAPTURE is compared on the squares.
\* a slip in the capture test: the fit check alone
CanCaptureAtFitOnly(h, obj_x, obj_y, obj_size) == obj_size * 100 <= h.radius * K_FIT

CanCaptureAt(h, obj_x, obj_y, obj_size) ==
    IF obj_size * 100 > h.radius * K_FIT THEN FALSE
    ELSE LET dx == obj_x - h.x
             dy == obj_y - h.y
         IN  10000 * (dx * dx + dy * dy) <= (h.radius * K_CAPTURE) * (h.radius * K_CAPTURE)

----------------------------------------------------------------------------
(* WorldObject *)

\* ObjectState
Normal == [tag |-> "Normal"]
Falling(progress, target_x, target_y) ==
    [tag |-> "Falling", progress |-> progress, target_x |-> target_x, target_y |-> target_y]
Consumed == [tag |-> "Consumed"]

\* WorldObject::new: width = height = size, mass = size * size * 0.1
NewObject(x, y, size) ==
    [ x |-> x, y |-> y, width |-> size, height |-> size, size |-> size,
      mass |-> (size * size) \div 10,
      state |-> Normal, consumed |-> FALSE ]

\* WorldObject::new_building: size = (width + height) / 2, mass = width * height * 0.5
NewBuilding(x, y, width, height) ==
    [ x |-> x, y |-> y, width |-> width, height |-> height,
      size |-> (width + height) \div 2,
      mass |-> (width * height) \div 2,
      state |-> Normal, consumed |-> FALSE ]

\* WorldObject::start_falling
StartFalling(obj, hole_x, hole_y) ==
    [obj EXCEPT !.state = Falling(0, hole_x, hole_y)]

\* a slip in update_falling: progress is clamped to 1.0 before it is stored and
\* then compared with > 1.0, so a fall never completes
UpdateFallingUnfinished(obj, dt) ==
    IF obj.state.tag # "Falling" THEN [obj |-> obj, done |-> FALSE]
    ELSE LET progress == Min(obj.state.progress + dt * FALL_SPEED, PROGRESS_ONE)
         IN  [obj |-> [obj EXCEPT !.state.progress = progress], done |-> FALSE]

\* a slip in update_falling: the state is flipped but the flag is not set
UpdateFallingNoFlag(obj, dt) ==
    IF obj.state.tag # "Falling" THEN [obj |-> obj, done |-> FALSE]
    ELSE LET progress == obj.state.progress + dt * FALL_SPEED
         IN  IF progress >= PROGRESS_ONE
             THEN [obj |-> [obj EXCEPT !.state = Consumed], done |-> TRUE]
             ELSE [obj |-> [obj EXCEPT !.state.progress = progress], done |-> FALSE]

\* WorldObject::update_falling: the object after the call and the value returned.
\* The position moves by (target - position) * t*t * 0.3, t = min(progress, 1.0).
UpdateFalling(obj, dt) ==
    IF obj.state.tag # "Falling" THEN [obj |-> obj, done |-> FALSE]
    ELSE LET progress == obj.state.progress + dt * FALL_SPEED
             t == Min(progress, PROGRESS_ONE)
             moved == [obj EXCEPT
                         !.x = obj.x + ((obj.state.target_x - obj.x) * t * t * 3) \div 1000,
                         !.y = obj.y + ((obj.state.target_y - obj.y) * t * t * 3) \div 1000,
                         !.state.progress = progress]
         IN  IF progress >= PROGRESS_ONE
             THEN [obj |-> [moved EXCEPT !.state = Consumed, !.consumed = TRUE],
                   done |-> TRUE]
             ELSE [obj |-> moved, done |-> FALSE]

----------------------------------------------------------------------------
(* SpatialGrid *)

\* CellCoord::from_position on a coordinate given in half units (2 * value), so
\* that x - width / 2.0 is exact: floor(value / CELL_SIZE)
CellOfHalf(v2) == v2 \div (2 * CELL_SIZE)

\* CellCoord::from_position on one coordinate
CellOf(v) == v \div CELL_SIZE

\* for cx in min.x..=max.x { for cy in min.y..=max.y }: the cells in loop order
CellRange(min_x, min_y, max_x, max_y) ==
    IF max_x < min_x \/ max_y < min_y THEN << >>
    ELSE LET rows == max_y - min_y + 1
         IN  [k \in 1..((max_x - min_x + 1) * rows) |->
                 << min_x + ((k - 1) \div rows), min_y + ((k - 1) % rows) >>]

\* the cells build walks for an object: from_position(x -/+ half_w, y -/+ half_h)
ObjectCells(obj) ==
    CellRange(CellOfHalf(2 * obj.x - obj.width), CellOfHalf(2 * obj.y - obj.height),
              CellOfHalf(2 * obj.x + obj.width), CellOfHalf(2 * obj.y + obj.height))

\* self.cells.entry(coord).or_insert_with(Vec::new).push(idx)
PushIndex(m, coord, idx) ==
    [c \in DOMAIN m \cup {coord} |->
        IF c = coord
        THEN (IF coord \in DOMAIN m THEN Append(m[coord], idx) ELSE <<idx>>)
        ELSE m[c]]

RECURSIVE PushAll(_, _, _, _)
PushAll(m, cs, k, idx) ==
    IF k > Len(cs) THEN m ELSE PushAll(PushIndex(m, cs[k], idx), cs, k + 1, idx)

\* HashMap::new / self.cells.clear()
EmptyCells == [c \in {} |-> << >>]

RECURSIVE BuildFrom(_, _, _)
\* the loop of SpatialGrid::build from object idx on
BuildFrom(m, objs, idx) ==
    IF idx > Len(objs) THEN m
    ELSE IF objs[idx].consumed THEN BuildFrom(m, objs, idx + 1)
    ELSE BuildFrom(PushAll(m, ObjectCells(objs[idx]), 1, idx), objs, idx + 1)

\* SpatialGrid::build
Build(objs) == BuildFrom(EmptyCells, objs, 1)

\* the elements of a sequence
Elements(q) == {q[k] : k \in 1..Len(q)}

RECURSIVE PushUnseen(_, _, _)
\* a slip in the queries: every index of every cell is pushed
PushEvery(result, indices, k) ==
    IF k > Len(indices) THEN result
    ELSE PushUnseen(Append(result, indices[k]), indices, k + 1)

\* for &idx in indices { if seen.insert(idx) { result.push(idx) } }
PushUnseen(result, indices, k) ==
    IF k > Len(indices) THEN result
    ELSE IF indices[k] \in Elements(result) THEN PushUnseen(result, indices, k + 1)
    ELSE PushUnseen(Append(result, indices[k]), indices, k + 1)

RECURSIVE QueryCells(_, _, _, _)
\* the cell loop shared by query_radius and query_rect, over the cells of the
\* range that self.cells.get finds
QueryCells(m, cs, k, result) ==
    IF k > Len(cs) THEN result
    ELSE QueryCells(m, cs, k + 1, PushUnseen(result, m[cs[k]], 1))

\* the cells of a range that are keys of the map, in loop order
FoundCells(m, cs) ==
    LET Found(c) == c \in DOMAIN m
    IN  SelectSeq(cs, Found)

\* SpatialGrid::query_radius
QueryRadius(m, x, y, radius) ==
    QueryCells(m, FoundCells(m, CellRange(CellOf(x - radius), CellOf(y - radius),
                                          CellOf(x + radius), CellOf(y + radius))),
               1, << >>)

\* SpatialGrid::query_rect on Rect { x, y, w, h }
QueryRect(m, rect) ==
    QueryCells(m, FoundCells(m, CellRange(CellOf(rect.x), CellOf(rect.y),
                                          CellOf(rect.x + rect.w),
                                          CellOf(rect.y + rect.h))),
               1, << >>)

----------------------------------------------------------------------------
(* process_swallow and update_falling_objects *)

\* a slip in process_swallow: only falling objects are skipped
SwallowOneIgnoringConsumed(h, objs, idx) ==
    IF objs[idx].state.tag = "Falling"
    THEN [hole |-> h, objects |-> objs, captured |-> FALSE]
    ELSE IF CanCaptureAt(h, objs[idx].x, objs[idx].y, objs[idx].size)
    THEN [hole |-> h,
          objects |-> [objs EXCEPT ![idx] = StartFalling(objs[idx], h.x, h.y)],
          captured |-> TRUE]
    ELSE [hole |-> h, objects |-> objs, captured |-> FALSE]

\* a slip in process_swallow: the growth is granted at the capture
SwallowOneGrowing(h, objs, idx) ==
    IF objs[idx].consumed \/ objs[idx].state.tag = "Falling"
    THEN [hole |-> h, objects |-> objs, captured |-> FALSE]
    ELSE IF CanCaptureAt(h, objs[idx].x, objs[idx].y, objs[idx].size)
    THEN [hole |-> Grow(h, objs[idx].mass, GROWTH_MULTIPLIER),
          objects |-> [objs EXCEPT ![idx] = StartFalling(objs[idx], h.x, h.y)],
          captured |-> TRUE]
    ELSE [hole |-> h, objects |-> objs, captured |-> FALSE]

\* a slip in process_swallow: only consumed objects are skipped
SwallowOneIgnoringFalling(h, objs, idx) ==
    IF objs[idx].consumed
    THEN [hole |-> h, objects |-> objs, captured |-> FALSE]
    ELSE IF CanCaptureAt(h, objs[idx].x, objs[idx].y, objs[idx].size)
    THEN [hole |-> h,
          objects |-> [objs EXCEPT ![idx] = StartFalling(objs[idx], h.x, h.y)],
          captured |-> TRUE]
    ELSE [hole |-> h, objects |-> objs, captured |-> FALSE]

\* the body of the candidate loop of process_swallow: the hole (borrowed
\* mutably, never written) and the objects after candidate idx was looked at,
\* and whether its id was pushed
SwallowOne(h, objs, idx) ==
    IF objs[idx].consumed \/ objs[idx].state.tag = "Falling"
    THEN [hole |-> h, objects |-> objs, captured |-> FALSE]
    ELSE IF CanCaptureAt(h, objs[idx].x, objs[idx].y, objs[idx].size)
    THEN [hole |-> h,
          objects |-> [objs EXCEPT ![idx] = StartFalling(objs[idx], h.x, h.y)],
          captured |-> TRUE]
    ELSE [hole |-> h, objects |-> objs, captured |-> FALSE]

RECURSIVE SwallowFrom(_, _, _, _, _)
SwallowFrom(h, objs, nearby, k, ids) ==
    IF k > Len(nearby) THEN [hole |-> h, objects |-> objs, ret |-> ids]
    ELSE LET one == SwallowOne(h, objs, nearby[k])
         IN  SwallowFrom(one.hole, one.objects, nearby, k + 1,
                         IF one.captured THEN Append(ids, nearby[k]) ELSE ids)

\* a slip in process_swallow: the query asks for the hole's own cell alone
ProcessSwallowOwnCell(h, objs, m) ==
    IF ~h.is_alive THEN [hole |-> h, objects |-> objs, ret |-> << >>]
    ELSE SwallowFrom(h, objs, QueryRadius(m, h.x, h.y, 0), 1, << >>)

\* process_swallow: the hole and the objects after the call and the ids returned
\* (an object's id is its index).  The particle and ripple requests go to the
\* VFX sink, which the core never reads.
ProcessSwallow(h, objs, m) ==
    IF ~h.is_alive THEN [hole |-> h, objects |-> objs, ret |-> << >>]
    ELSE SwallowFrom(h, objs, QueryRadius(m, h.x, h.y, h.radius * 2), 1, << >>)

RECURSIVE FallingFromEveryStep(_, _, _, _)
\* a slip in update_falling_objects: the value update_falling returns is not
\* looked at, and the hole grows at every step of a fall
FallingFromEveryStep(h, objs, k, dt) ==
    IF k > Len(objs) THEN [hole |-> h, objects |-> objs]
    ELSE IF objs[k].state.tag = "Falling"
    THEN LET u == UpdateFalling(objs[k], dt)
         IN  FallingFromEveryStep(Grow(h, objs[k].mass, GROWTH_MULTIPLIER),
                                  [objs EXCEPT ![k] = u.obj], k + 1, dt)
    ELSE FallingFromEveryStep(h, objs, k + 1, dt)

RECURSIVE FallingFrom(_, _, _, _)
\* update_falling_objects: the hole and the objects after the call
FallingFrom(h, objs, k, dt) ==
    IF k > Len(objs) THEN [hole |-> h, objects |-> objs]
    ELSE IF objs[k].state.tag = "Falling"
    THEN LET u == UpdateFalling(objs[k], dt)
         IN  FallingFrom(IF u.done THEN Grow(h, objs[k].mass, GROWTH_MULTIPLIER) ELSE h,
                         [objs EXCEPT ![k] = u.obj], k + 1, dt)
    ELSE FallingFrom(h, objs, k + 1, dt)

UpdateFallingObjects(h, objs, dt) == FallingFrom(h, objs, 1, dt)

----------------------------------------------------------------------------
(* process_hole_combat *)

None == [is_some |-> FALSE]
Some(v) == [is_some |-> TRUE, value |-> v]

RECURSIVE PairsFrom(_, _, _)
\* for i in 0..len { for j in (i + 1)..len }: the pairs in enumeration order
PairsFrom(i, j, n) ==
    IF i > n THEN << >>
    ELSE IF j > n THEN PairsFrom(i + 1, i + 2, n)
    ELSE << <<i, j>> >> \o PairsFrom(i, j + 1, n)

\* a slip in the pair check: only the lower index is tried as the winner
PairOutcomeForwardOnly(hs, i, j) ==
    IF ~hs[i].is_alive \/ ~hs[j].is_alive THEN << >>
    ELSE IF ~OverlapsHole(hs[i], hs[j]) THEN << >>
    ELSE IF CanConsumeHole(hs[i], hs[j]) THEN << <<i, j>> >>
    ELSE << >>

\* a slip in the pair check: the overlap test is left out
PairOutcomeAnyDistance(hs, i, j) ==
    IF ~hs[i].is_alive \/ ~hs[j].is_alive THEN << >>
    ELSE IF CanConsumeHole(hs[i], hs[j]) THEN << <<i, j>> >>
    ELSE IF CanConsumeHole(hs[j], hs[i]) THEN << <<j, i>> >>
    ELSE << >>

\* the body of the pair loop: the (winner, loser) entry pushed for (i, j), if any
PairOutcome(hs, i, j) ==
    IF ~hs[i].is_alive \/ ~hs[j].is_alive THEN << >>
    ELSE IF ~OverlapsHole(hs[i], hs[j]) THEN << >>
    ELSE IF CanConsumeHole(hs[i], hs[j]) THEN << <<i, j>> >>
    ELSE IF CanConsumeHole(hs[j], hs[i]) THEN << <<j, i>> >>
    ELSE << >>

RECURSIVE CollectFrom(_, _, _)
CollectFrom(hs, ps, k) ==
    IF k > Len(ps) THEN << >>
    ELSE PairOutcome(hs, ps[k][1], ps[k][2]) \o CollectFrom(hs, ps, k + 1)

\* the first loop of process_hole_combat: the eliminations vector
CollectEliminations(hs) == CollectFrom(hs, PairsFrom(1, 2, Len(hs)), 1)

\* the body of the second loop: one (winner, loser) entry applied to the holes
ApplyElimination(hs, winner, loser, allow_respawn, respawn_time) ==
    LET a == hs[winner].area + Half(hs[loser].area)
        won == [hs EXCEPT ![winner].area = a,
                          ![winner].radius = RadiusOfArea(a),
                          ![winner].eliminations = hs[winner].eliminations + 1]
    IN  IF allow_respawn
        THEN [won EXCEPT ![loser] = Die(won[loser], respawn_time)]
        ELSE [won EXCEPT ![loser].is_alive = FALSE]

\* a slip: the player is looked for among the winners
PlayerEliminatedAsWinner(prev, winner, loser, player_idx) ==
    IF winner = player_idx THEN Some(loser) ELSE prev

\* player_eliminated after one entry
PlayerEliminated(prev, winner, loser, player_idx) ==
    IF loser = player_idx THEN Some(winner) ELSE prev

RECURSIVE ApplyFrom(_, _, _, _, _, _, _)
ApplyFrom(hs, elims, k, ret, player_idx, allow_respawn, respawn_time) ==
    IF k > Len(elims) THEN [holes |-> hs, ret |-> ret]
    ELSE ApplyFrom(ApplyElimination(hs, elims[k][1], elims[k][2],
                                    allow_respawn, respawn_time),
                   elims, k + 1,
                   PlayerEliminated(ret, elims[k][1], elims[k][2], player_idx),
                   player_idx, allow_respawn, respawn_time)

\* process_hole_combat: the holes after the call, the value returned, and the
\* eliminations vector it worked from
ProcessHoleCombat(hs, player_idx, allow_respawn, respawn_time) ==
    LET elims == CollectEliminations(hs)
        done == ApplyFrom(hs, elims, 1, None, player_idx, allow_respawn, respawn_time)
    IN  [holes |-> done.holes, ret |-> done.ret, eliminations |-> elims]

----------------------------------------------------------------------------
(* Leaderboard.  The id of a hole is its index in the holes array: ids come
   from a counter that never repeats and the array is never reordered.  Ranks
   are positions counted from 1, as get_player_rank reports them. *)

\* Leaderboard::new
NewLeaderboard == [entries |-> << >>, previous_ranks |-> << >>]

\* the LeaderboardEntry pushed for holes[i]
Entry(hs, i) ==
    [id |-> i, size |-> hs[i].radius, score |-> hs[i].score,
     eliminations |-> hs[i].eliminations, is_player |-> hs[i].is_player,
     rank_change |-> 0]

RECURSIVE PushedEntriesWithDead(_, _)
\* a slip in the rebuild: dead holes get an entry too
PushedEntriesWithDead(hs, i) ==
    IF i > Len(hs) THEN << >>
    ELSE << Entry(hs, i) >> \o PushedEntriesWithDead(hs, i + 1)

RECURSIVE PushedEntries(_, _)
\* the rebuild loop: one entry per alive hole, in array order
PushedEntries(hs, i) ==
    IF i > Len(hs) THEN << >>
    ELSE IF hs[i].is_alive THEN << Entry(hs, i) >> \o PushedEntries(hs, i + 1)
    ELSE PushedEntries(hs, i + 1)

\* e put into a sequence sorted by size descending, behind its equals
InsertBySize(sorted, e) ==
    LET ahead == Cardinality({k \in DOMAIN sorted : sorted[k].size >= e.size})
    IN  SubSeq(sorted, 1, ahead) \o << e >> \o SubSeq(sorted, ahead + 1, Len(sorted))

RECURSIVE SortBySizeFrom(_, _, _)
SortBySizeFrom(es, k, sorted) ==
    IF k > Len(es) THEN sorted
    ELSE SortBySizeFrom(es, k + 1, InsertBySize(sorted, es[k]))

\* entries.sort_by(|a, b| b.size.partial_cmp(&a.size)): stable, descending
SortBySize(es) == SortBySizeFrom(es, 1, << >>)

\* the "save previous ranks" loop: previous_ranks.insert(entry.id, i)
SavedRanks(lb) ==
    LET ids == {lb.entries[k].id : k \in DOMAIN lb.entries}
    IN  [id \in DOMAIN lb.previous_ranks \cup ids |->
            IF id \in ids
            THEN CHOOSE k \in DOMAIN lb.entries : lb.entries[k].id = id
            ELSE lb.previous_ranks[id]]

\* a slip in the rank change: the signs are exchanged
RankChangeSwapped(prev, id, new_rank) ==
    IF id \notin DOMAIN prev THEN 0
    ELSE IF new_rank < prev[id] THEN -1
    ELSE IF new_rank > prev[id] THEN 1
    ELSE 0

\* the rank_change of the entry with this id at new_rank
RankChange(prev, id, new_rank) ==
    IF id \notin DOMAIN prev THEN 0
    ELSE IF new_rank < prev[id] THEN 1
    ELSE IF new_rank > prev[id] THEN -1
    ELSE 0

\* Leaderboard::update
LeaderboardUpdate(lb, hs) ==
    LET prev == SavedRanks(lb)
        sorted == SortBySize(PushedEntries(hs, 1))
    IN  [entries |-> [k \in DOMAIN sorted |->
                        [sorted[k] EXCEPT !.rank_change = RankChange(prev, sorted[k].id, k)]],
         previous_ranks |-> prev]

\* Leaderboard::get_player_rank
GetPlayerRank(lb) ==
    LET at == {k \in DOMAIN lb.entries : lb.entries[k].is_player}
    IN  IF at = {} THEN None
        ELSE Some(CHOOSE k \in at : \A j \in at : k <= j)

----------------------------------------------------------------------------
(* BotController *)

\* THREAT_RANGE = 200.0, THREAT_MARGIN = 1.3 (in tenths), HUNT_RANGE = 300.0,
\* the radius 50.0 above which a bot hunts
THREAT_RANGE == 200
THREAT_MARGIN10 == 13
HUNT_RANGE == 300
HUNT_RADIUS == 50

\* BotController::default
DefaultController ==
    [ state |-> "Farming", target |-> None, state_timer |-> 0,
      wander_angle |-> 0, decision_cooldown |-> 0 ]

\* dx * dx + dy * dy from a hole to a point.  The code takes the square root
\* and compares distances; two distances compare as their squares do.
Dist2(h, x, y) == (x - h.x) * (x - h.x) + (y - h.y) * (y - h.y)

\* (dx * dx + dy * dy).sqrt(), in tenths of a unit
Dist10(h, x, y) == Sqrt(100 * Dist2(h, x, y))

RECURSIVE ThreatFrom(_, _, _, _, _)
\* the loop of find_threat from hole k on; closest is None or
\* Some(<<squared distance, position>>)
ThreatFrom(hole, self, hs, k, closest) ==
    IF k > Len(hs) THEN closest
    ELSE IF k = self \/ ~hs[k].is_alive THEN ThreatFrom(hole, self, hs, k + 1, closest)
    ELSE LET dist2 == Dist2(hole, hs[k].x, hs[k].y)
         IN  IF /\ dist2 < THREAT_RANGE * THREAT_RANGE
                /\ hs[k].radius * 10 > hole.radius * THREAT_MARGIN10
                /\ (~closest.is_some \/ dist2 < closest.value[1])
             THEN ThreatFrom(hole, self, hs, k + 1,
                             Some(<<dist2, <<hs[k].x, hs[k].y>> >>))
             ELSE ThreatFrom(hole, self, hs, k + 1, closest)

\* a slip in find_threat: a smaller hole counts as a threat
FindThreatAnySize(hole, self, hs) ==
    LET near == {k \in DOMAIN hs : k # self /\ hs[k].is_alive
                                   /\ Dist2(hole, hs[k].x, hs[k].y)
                                         < THREAT_RANGE * THREAT_RANGE}
    IN  IF near = {} THEN None
        ELSE LET k == CHOOSE c \in near :
                        \A d \in near : Dist2(hole, hs[c].x, hs[c].y)
                                           <= Dist2(hole, hs[d].x, hs[d].y)
             IN  Some(<<hs[k].x, hs[k].y>>)

\* BotController::find_threat; other.id == hole.id holds for the bot's own
\* entry only (ids are handed out by a counter), which is entry self
FindThreat(hole, self, hs) ==
    LET closest == ThreatFrom(hole, self, hs, 1, None)
    IN  IF closest.is_some THEN Some(closest.value[2]) ELSE None

RECURSIVE PreyFrom(_, _, _, _, _)
\* the loop of find_prey from hole k on
PreyFrom(hole, self, hs, k, best) ==
    IF k > Len(hs) THEN best
    ELSE IF k = self \/ ~hs[k].is_alive THEN PreyFrom(hole, self, hs, k + 1, best)
    ELSE IF ~CanConsumeHole(hole, hs[k]) THEN PreyFrom(hole, self, hs, k + 1, best)
    ELSE LET dist2 == Dist2(hole, hs[k].x, hs[k].y)
         IN  IF /\ dist2 < HUNT_RANGE * HUNT_RANGE
                /\ (~best.is_some \/ dist2 < best.value[1])
             THEN PreyFrom(hole, self, hs, k + 1, Some(<<dist2, <<hs[k].x, hs[k].y>> >>))
             ELSE PreyFrom(hole, self, hs, k + 1, best)

\* a slip in find_prey: can_consume_hole is not asked
FindPreyAnyHole(hole, self, hs) ==
    LET near == {k \in DOMAIN hs : k # self /\ hs[k].is_alive
                                   /\ Dist2(hole, hs[k].x, hs[k].y)
                                         < HUNT_RANGE * HUNT_RANGE}
    IN  IF near = {} THEN None
        ELSE LET k == CHOOSE c \in near :
                        \A d \in near : Dist2(hole, hs[c].x, hs[c].y)
                                           <= Dist2(hole, hs[d].x, hs[d].y)
             IN  Some(<<hs[k].x, hs[k].y>>)

\* BotController::find_prey
FindPrey(hole, self, hs) ==
    LET best == PreyFrom(hole, self, hs, 1, None)
    IN  IF best.is_some THEN Some(best.value[2]) ELSE None

\* WorldObject::can_be_swallowed
CanBeSwallowed(obj, hole_radius) == obj.size * 100 <= hole_radius * K_FIT

RECURSIVE BestObjectFrom(_, _, _, _, _)
\* the loop of find_best_object from entry k of the query result on; the score
\* dist - mass * 0.1 is in tenths
BestObjectFrom(hole, objs, nearby, k, best) ==
    IF k > Len(nearby) THEN best
    ELSE LET obj == objs[nearby[k]]
         IN  IF obj.consumed \/ ~CanBeSwallowed(obj, hole.radius)
             THEN BestObjectFrom(hole, objs, nearby, k + 1, best)
             ELSE LET score == Dist10(hole, obj.x, obj.y) - obj.mass
                  IN  IF ~best.is_some \/ score < best.value[1]
                      THEN BestObjectFrom(hole, objs, nearby, k + 1,
                                          Some(<<score, <<obj.x, obj.y>> >>))
                      ELSE BestObjectFrom(hole, objs, nearby, k + 1, best)

\* a slip in find_best_object: the nearest object is taken, whatever its mass
FindBestObjectNearest(hole, objs, m) ==
    LET nearby == Elements(QueryRadius(m, hole.x, hole.y, hole.radius * 4))
        fit == {i \in nearby : ~objs[i].consumed /\ CanBeSwallowed(objs[i], hole.radius)}
    IN  IF fit = {} THEN None
        ELSE LET i == CHOOSE c \in fit :
                        \A d \in fit : Dist2(hole, objs[c].x, objs[c].y)
                                          <= Dist2(hole, objs[d].x, objs[d].y)
             IN  Some(<<objs[i].x, objs[i].y>>)

\* BotController::find_best_object
FindBestObject(hole, objs, m) ==
    LET best == BestObjectFrom(hole, objs,
                               QueryRadius(m, hole.x, hole.y, hole.radius * 4), 1, None)
    IN  IF best.is_some THEN Some(best.value[2]) ELSE None

\* BotController::make_decision; hunt_roll says whether rng.gen::<f32>() < 0.6
\* (the number is drawn only if a prey was found)
MakeDecision(ctrl, hole, self, hs, objs, m, hunt_roll) ==
    LET threat == FindThreat(hole, self, hs)
        prey == IF hole.radius > HUNT_RADIUS THEN FindPrey(hole, self, hs) ELSE None
        target == FindBestObject(hole, objs, m)
    IN  IF threat.is_some
        THEN [ctrl EXCEPT !.state = "Fleeing", !.target = threat]
        ELSE IF prey.is_some /\ hunt_roll
        THEN [ctrl EXCEPT !.state = "Hunting", !.target = prey]
        ELSE IF target.is_some
        THEN [ctrl EXCEPT !.state = "Farming", !.target = target]
        ELSE [ctrl EXCEPT !.state = "Wandering", !.target = None]

\* Vec2::normalize of (dx, dy), in thousandths
NormalizeVec(dx, dy) ==
    LET len10 == Sqrt(100 * (dx * dx + dy * dy))
    IN  << (dx * 10000) \div len10, (dy * 10000) \div len10 >>

\* the direction toward a point if it is more than 1.0 away, or None
DirectionTo(hole, x, y) ==
    IF Dist2(hole, x, y) > 1 THEN Some(NormalizeVec(x - hole.x, y - hole.y)) ELSE None

\* execute_farming, execute_hunting, execute_fleeing and execute_wandering: the
\* controller after the call and the direction returned.  A direction is a
\* vector in thousandths or, from execute_wandering, the angle a (in tenths of
\* a radian) of the vector (cos a, sin a).  jitter is (rng - 0.5) * 2.0 * dt.
Execute(ctrl, hole, objs, m, jitter) ==
    LET zero == [tag |-> "vec", v |-> <<0, 0>>]
        toward == IF ctrl.target.is_some
                  THEN DirectionTo(hole, ctrl.target.value[1], ctrl.target.value[2])
                  ELSE None
    IN  CASE ctrl.state = "Farming" ->
               IF toward.is_some
               THEN [ctrl |-> ctrl, ret |-> [tag |-> "vec", v |-> toward.value]]
               ELSE LET new_target == FindBestObject(hole, objs, m)
                        fly == IF new_target.is_some
                               THEN DirectionTo(hole, new_target.value[1],
                                                new_target.value[2])
                               ELSE None
                    IN  [ctrl |-> ctrl,
                         ret |-> IF fly.is_some THEN [tag |-> "vec", v |-> fly.value]
                                 ELSE zero]
          [] ctrl.state = "Hunting" ->
               [ctrl |-> ctrl,
                ret |-> IF toward.is_some THEN [tag |-> "vec", v |-> toward.value]
                        ELSE zero]
          [] ctrl.state = "Fleeing" ->
               [ctrl |-> ctrl,
                ret |-> IF toward.is_some
                        THEN [tag |-> "vec", v |-> <<-toward.value[1], -toward.value[2]>>]
                        ELSE zero]
          [] ctrl.state = "Wandering" ->
               LET angle == ctrl.wander_angle + jitter
               IN  [ctrl |-> [ctrl EXCEPT !.wander_angle = angle],
                    ret |-> [tag |-> "angle", a |-> angle]]

\* a slip in update: a decision is made in every call
ControllerUpdateEveryCall(ctrl, hole, self, hs, objs, m, dt, hunt_roll, rearm, jitter) ==
    LET timed == [ctrl EXCEPT !.state_timer = @ + dt, !.decision_cooldown = @ - dt]
        decided == [MakeDecision(timed, hole, self, hs, objs, m, hunt_roll)
                       EXCEPT !.decision_cooldown =
                                 IF timed.decision_cooldown <= 0 THEN rearm ELSE @]
        done == Execute(decided, hole, objs, m, jitter)
    IN  [ctrl |-> done.ctrl, ret |-> done.ret, decided |-> TRUE]

\* BotController::update: the controller after the call, the direction
\* returned, and whether make_decision was called.  rearm is
\* 0.3 + rng.gen::<f32>() * 0.3, in ticks.
ControllerUpdate(ctrl, hole, self, hs, objs, m, dt, hunt_roll, rearm, jitter) ==
    LET timed == [ctrl EXCEPT !.state_timer = @ + dt, !.decision_cooldown = @ - dt]
        decided == IF timed.decision_cooldown <= 0
                   THEN [MakeDecision(timed, hole, self, hs, objs, m, hunt_roll)
                            EXCEPT !.decision_cooldown = rearm]
                   ELSE timed
        done == Execute(decided, hole, objs, m, jitter)
    IN  [ctrl |-> done.ctrl, ret |-> done.ret,
         decided |-> timed.decision_cooldown <= 0]

----------------------------------------------------------------------------
(* Calls of the Hole methods on two fresh holes *)

\* Inputs of the calls
GrowMasses == {40, 300000}
GrowMultipliers == {GROWTH_MULTIPLIER, 100}
RespawnTimes == {0, 12}

NoCall == [op |-> "none"]
\* no GameSession exists: the calls are made on their arguments alone
NoSession == [state |-> "none"]

InitHole ==
    /\ holes = << NewHole(100, 100, TRUE), NewHole(100, 100, FALSE) >>
    /\ objects = << >>
    /\ cells = EmptyCells
    /\ call = NoCall
    /\ steps = 0
    /\ sess = NoSession

HoleGrow ==
    /\ steps < MaxCalls
    /\ \E i \in DOMAIN holes, m \in GrowMasses, g \in GrowMultipliers :
          /\ holes' = [holes EXCEPT ![i] = Grow(holes[i], m, g)]
          /\ call' = [op |-> "grow", self |-> i, mass |-> m, multiplier |-> g]
    /\ steps' = steps + 1
    /\ UNCHANGED <<objects, cells, sess>>

HoleConsumeHole ==
    /\ steps < MaxCalls
    /\ \E i \in DOMAIN holes, j \in DOMAIN holes :
          /\ i # j
          /\ holes' = [holes EXCEPT ![i] = ConsumeHole(holes[i], holes[j])]
          /\ call' = [op |-> "consume_hole", self |-> i, other |-> j]
    /\ steps' = steps + 1
    /\ UNCHANGED <<objects, cells, sess>>

HoleDie ==
    /\ steps < MaxCalls
    /\ \E i \in DOMAIN holes, t \in RespawnTimes :
          /\ holes' = [holes EXCEPT ![i] = Die(holes[i], t)]
          /\ call' = [op |-> "die", self |-> i, respawn_time |-> t]
    /\ steps' = steps + 1
    /\ UNCHANGED <<objects, cells, sess>>

NextHole == HoleGrow \/ HoleConsumeHole \/ HoleDie

SpecHole == InitHole /\ [][NextHole]_vars

----------------------------------------------------------------------------
(* Calls of set_velocity, try_dash, die and update on one hole *)

\* Inputs of the calls: directions, (cooldown, duration) pairs of try_dash (a
\* short one, and the one of Settings::default), frame times
DashDirections == { <<0, 0>>, <<1, 0>>, <<-1, 1>> }
DashSettings == { <<4, 2>>, <<DASH_COOLDOWN, DASH_DURATION>> }
DashDts == {2, 5}

\* no dash has succeeded yet
NoDash == [cooldown |-> 0, elapsed |-> 0, count |-> 0]

InitDash ==
    /\ holes \in { <<NewHole(100, 100, TRUE)>>,
                   <<SetVelocity(NewHole(100, 100, TRUE), <<1, 0>>)>>,
                   <<SetVelocity(NewHole(1950, 60, TRUE), <<1, 0>>)>> }
    /\ objects = << >>
    /\ cells = EmptyCells
    /\ call = [op |-> "none", dash |-> NoDash]
    /\ steps = 0
    /\ sess = NoSession

DashSetVelocity ==
    /\ steps < MaxCalls
    /\ \E i \in DOMAIN holes, vel \in DashDirections :
          /\ holes' = [holes EXCEPT ![i] = SetVelocity(holes[i], vel)]
          /\ call' = [op |-> "set_velocity", self |-> i, vel |-> vel,
                      dash |-> call.dash]
    /\ steps' = steps + 1
    /\ UNCHANGED <<objects, cells, sess>>

DashTryDash ==
    /\ steps < MaxCalls
    /\ \E i \in DOMAIN holes, s \in DashSettings :
          \E r \in {TryDash(holes[i], s[1], s[2])} :
             /\ holes' = [holes EXCEPT ![i] = r.hole]
             /\ call' = [op |-> "try_dash", self |-> i, dash_cooldown |-> s[1],
                         dash_duration |-> s[2], ret |-> r.ret,
                         dash |-> IF r.ret THEN [cooldown |-> s[1], elapsed |-> 0,
                                                 count |-> call.dash.count + 1]
                                  ELSE call.dash]
    /\ steps' = steps + 1
    /\ UNCHANGED <<objects, cells, sess>>

DashDie ==
    /\ steps < MaxCalls
    /\ \E i \in DOMAIN holes, t \in RespawnTimes :
          /\ holes' = [holes EXCEPT ![i] = Die(holes[i], t)]
          /\ call' = [op |-> "die", self |-> i, respawn_time |-> t,
                      dash |-> call.dash]
    /\ steps' = steps + 1
    /\ UNCHANGED <<objects, cells, sess>>

DashUpdate ==
    /\ steps < MaxCalls
    /\ \E i \in DOMAIN holes, dt \in DashDts :
          /\ holes' = [holes EXCEPT ![i] =
                          HoleUpdate(holes[i], dt, WORLD_WIDTH, WORLD_HEIGHT, MOVE_SPEED)]
          /\ call' = [op |-> "update", self |-> i, dt |-> dt,
                      dash |-> [call.dash EXCEPT !.elapsed = @ + dt]]
    /\ steps' = steps + 1
    /\ UNCHANGED <<objects, cells, sess>>

NextDash == DashSetVelocity \/ DashTryDash \/ DashDie \/ DashUpdate

SpecDash == InitDash /\ [][NextDash]_vars

----------------------------------------------------------------------------
(* One call of process_hole_combat on a holes array *)

\* Inputs: hole sizes (25, 100 and 190 units of radius), places and conditions.
\* Alive holes take every size at every place; invincible and dead ones the
\* two smaller sizes at the first place; one small alive hole stands far off.
SampleAreas == {InitialArea, PI100 * 100 * 100, PI100 * 190 * 190}
SampleXs == {100, 140}

SampleHole(area, x, cond) ==
    [NewHole(x, 100, FALSE) EXCEPT
        !.area = area,
        !.radius = Min(RadiusOfArea(area), MAX_RADIUS),
        !.is_alive = (cond # "dead"),
        !.invincible = IF cond = "invincible" THEN INVINCIBLE_TIME ELSE 0]

HoleSamples ==
    {SampleHole(a, x, "alive") : a \in SampleAreas, x \in SampleXs}
    \cup {SampleHole(a, 100, c) : a \in {InitialArea, PI100 * 100 * 100},
                                  c \in {"invincible", "dead"}}
    \cup {SampleHole(InitialArea, 300, "alive")}

\* (allow_respawn, respawn_time) as update_game passes them: Classic, Battle/Solo
RespawnRules == { <<TRUE, RESPAWN_TIME_CLASSIC>>, <<FALSE, RESPAWN_TIME_NONE>> }

InitCombat ==
    /\ \E n \in 2..MaxHoles : holes \in [1..n -> HoleSamples]
    /\ objects = << >>
    /\ cells = EmptyCells
    /\ call = NoCall
    /\ steps = 0
    /\ sess = NoSession

CombatCall ==
    /\ call.op = "none"
    /\ \E player_idx \in DOMAIN holes, rule \in RespawnRules :
          LET r == ProcessHoleCombat(holes, player_idx, rule[1], rule[2])
          IN  /\ holes' = r.holes
              /\ call' = [op |-> "process_hole_combat",
                          player_idx |-> player_idx,
                          allow_respawn |-> rule[1],
                          respawn_time |-> rule[2],
                          eliminations |-> r.eliminations,
                          ret |-> r.ret]
    /\ steps' = steps + 1
    /\ UNCHANGED <<objects, cells, sess>>

NextCombat == CombatCall

SpecCombat == InitCombat /\ [][NextCombat]_vars

----------------------------------------------------------------------------
(* The grid and the per-hole calls on an objects array, in any order *)

\* Frame times, in ticks
DtSet == {2, 5}

\* Inputs: a person on a cell corner, a car inside a cell, a building over
\* three cells; each on the ground, falling or consumed
ObjectShapes ==
    { NewObject(98, 100, 4), NewObject(120, 110, 18), NewBuilding(250, 150, 120, 80) }

ObjectSamples ==
    ObjectShapes
    \cup {StartFalling(o, 100, 100) : o \in ObjectShapes}
    \cup {[o EXCEPT !.state = Consumed, !.consumed = TRUE] : o \in ObjectShapes}

\* Inputs: a fresh hole, a dead one, and one of radius 100
GridHoles ==
    { NewHole(100, 100, TRUE),
      [NewHole(100, 100, TRUE) EXCEPT !.is_alive = FALSE],
      [NewHole(150, 150, TRUE) EXCEPT !.area = PI100 * 100 * 100, !.radius = 100] }

\* Rectangles asked of query_rect
QueryRects ==
    { [x |-> 0, y |-> 0, w |-> 99, h |-> 99],
      [x |-> 50, y |-> 50, w |-> 100, h |-> 100],
      [x |-> 150, y |-> 100, w |-> 200, h |-> 50],
      [x |-> -50, y |-> -50, w |-> 40, h |-> 40] }

InitGrid ==
    /\ \E h \in GridHoles : holes = <<h>>
    /\ \E n \in 1..MaxObjects : objects \in [1..n -> ObjectSamples]
    /\ cells = EmptyCells
    /\ call = NoCall
    /\ steps = 0
    /\ sess = NoSession

GridBuild ==
    /\ cells' = Build(objects)
    /\ call' = [op |-> "build"]
    /\ UNCHANGED <<holes, objects, steps, sess>>

SwallowCall ==
    /\ \E i \in DOMAIN holes :
          LET r == ProcessSwallow(holes[i], objects, cells)
          IN  /\ holes' = [holes EXCEPT ![i] = r.hole]
              /\ objects' = r.objects
              /\ call' = [op |-> "process_swallow", hole |-> i, ret |-> r.ret]
    /\ UNCHANGED <<cells, steps, sess>>

FallingCall ==
    /\ \E i \in DOMAIN holes, dt \in DtSet :
          LET r == UpdateFallingObjects(holes[i], objects, dt)
          IN  /\ holes' = [holes EXCEPT ![i] = r.hole]
              /\ objects' = r.objects
              /\ call' = [op |-> "update_falling_objects", hole |-> i, dt |-> dt]
    /\ UNCHANGED <<cells, steps, sess>>

NextGrid == GridBuild \/ SwallowCall \/ FallingCall

SpecGrid == InitGrid /\ [][NextGrid]_vars

----------------------------------------------------------------------------
(* GameMode, ModeRules, GameClock, World *)

Modes == {"Classic", "Battle", "Solo"}

\* GameMode::allows_respawn
AllowsRespawn(mode) == mode = "Classic"

\* GameMode::round_duration
RoundDuration(mode) ==
    IF mode = "Classic" THEN ROUND_CLASSIC
    ELSE IF mode = "Battle" THEN ROUND_BATTLE ELSE ROUND_SOLO

\* ModeRules::new: respawn_time
RespawnTime(mode) ==
    IF mode = "Classic" THEN RESPAWN_TIME_CLASSIC ELSE RESPAWN_TIME_NONE

\* GameClock::new
ClockNew(duration) ==
    [duration |-> duration, remaining |-> duration, running |-> FALSE, elapsed |-> 0]

\* GameClock::start
ClockStart(c) == [c EXCEPT !.running = TRUE]

\* a slip in GameClock::pause: the flag is left as it is
ClockPauseKeepsRunning(c) == c

\* GameClock::pause
ClockPause(c) == [c EXCEPT !.running = FALSE]

\* GameClock::resume
ClockResume(c) == [c EXCEPT !.running = TRUE]

\* GameClock::reset
ClockReset(c) == [c EXCEPT !.remaining = c.duration, !.elapsed = 0, !.running = FALSE]

\* GameClock::new followed by GameClock::start
StartedClock(duration) == ClockStart(ClockNew(duration))

\* a slip in GameClock::update: true is returned whenever no time is left
ClockUpdateNoEdge(c, dt) ==
    IF ~c.running THEN [clock |-> c, time_up |-> FALSE]
    ELSE LET remaining == c.remaining - dt
         IN  IF remaining <= 0
             THEN [clock |-> [c EXCEPT !.elapsed = @ + dt, !.remaining = 0,
                                       !.running = FALSE],
                   time_up |-> TRUE]
             ELSE [clock |-> [c EXCEPT !.elapsed = @ + dt, !.remaining = remaining],
                   time_up |-> FALSE]

\* GameClock::update: the clock after the call and the value returned
ClockUpdate(c, dt) ==
    IF ~c.running THEN [clock |-> c, time_up |-> FALSE]
    ELSE LET remaining == c.remaining - dt
         IN  IF remaining <= 0
             THEN [clock |-> [c EXCEPT !.elapsed = @ + dt, !.remaining = 0,
                                       !.running = FALSE],
                   time_up |-> c.remaining > 0]
             ELSE [clock |-> [c EXCEPT !.elapsed = @ + dt, !.remaining = remaining],
                   time_up |-> FALSE]

\* 100.0 percent, in thousandths of a percent
HUNDRED_PERCENT == 100000

\* a slip in the count: every object that left the ground is counted
ConsumptionPercentageWithFalling(objs) ==
    IF Len(objs) = 0 THEN 0
    ELSE (Cardinality({k \in DOMAIN objs : objs[k].state # Normal}) * HUNDRED_PERCENT)
             \div Len(objs)

\* World::get_consumption_percentage, in thousandths of a percent
ConsumptionPercentage(objs) ==
    IF Len(objs) = 0 THEN 0
    ELSE (Cardinality({k \in DOMAIN objs : objs[k].consumed}) * HUNDRED_PERCENT)
             \div Len(objs)

\* World::get_consumption_percentage >= 100.0
CityConsumed(objs) == ConsumptionPercentage(objs) >= HUNDRED_PERCENT

\* check_victory: the variant of VictoryResult returned, with the percentage
\* of CityConsumed
CheckVictory(mode, time_remaining, player_alive, alive_count, percent, is_player_winner) ==
    IF mode = "Classic"
    THEN IF time_remaining <= 0 THEN [kind |-> "TimeUp"] ELSE [kind |-> "None"]
    ELSE IF mode = "Battle"
    THEN IF ~player_alive THEN [kind |-> "PlayerEliminated"]
         ELSE IF alive_count = 1 /\ is_player_winner THEN [kind |-> "PlayerWon"]
         ELSE IF time_remaining <= 0 THEN [kind |-> "TimeUp"]
         ELSE [kind |-> "None"]
    ELSE IF percent >= HUNDRED_PERCENT
         THEN [kind |-> "CityConsumed", percentage |-> HUNDRED_PERCENT]
         ELSE IF time_remaining <= 0
         THEN [kind |-> "CityConsumed", percentage |-> percent]
         ELSE [kind |-> "None"]

\* number of holes with is_alive
AliveCount(hs) == Cardinality({i \in DOMAIN hs : hs[i].is_alive})

----------------------------------------------------------------------------
(* The passes of update_game *)

\* player input: the direction from the keys held, then the dash key
PlayerInput(hs, player_idx, keys, shift) ==
    IF ~hs[player_idx].is_alive THEN hs
    ELSE LET vel == << (IF "D" \in keys THEN 1 ELSE 0) - (IF "A" \in keys THEN 1 ELSE 0),
                       (IF "S" \in keys THEN 1 ELSE 0) - (IF "W" \in keys THEN 1 ELSE 0) >>
             steered == SetVelocity(hs[player_idx], vel)
         IN  [hs EXCEPT ![player_idx] =
                 IF shift THEN TryDash(steered, DASH_COOLDOWN, DASH_DURATION).hole
                 ELSE steered]

\* bot AI: every alive hole after the first is steered by its controller;
\* dir is the direction the controllers return
BotInput(hs, dir) ==
    [i \in DOMAIN hs |->
        IF i >= 2 /\ hs[i].is_alive THEN SetVelocity(hs[i], dir) ELSE hs[i]]

\* hole.update for every hole
UpdateHoles(hs, dt) ==
    [i \in DOMAIN hs |-> HoleUpdate(hs[i], dt, WORLD_WIDTH, WORLD_HEIGHT, MOVE_SPEED)]

\* process_swallow for every alive hole, in index order
RECURSIVE SwallowPass(_, _, _, _)
SwallowPass(hs, objs, m, i) ==
    IF i > Len(hs) THEN [holes |-> hs, objects |-> objs]
    ELSE IF hs[i].is_alive
         THEN LET r == ProcessSwallow(hs[i], objs, m)
              IN  SwallowPass([hs EXCEPT ![i] = r.hole], r.objects, m, i + 1)
         ELSE SwallowPass(hs, objs, m, i + 1)

\* update_falling_objects for every hole, in index order
RECURSIVE FallingPass(_, _, _, _)
FallingPass(hs, objs, dt, i) ==
    IF i > Len(hs) THEN [holes |-> hs, objects |-> objs]
    ELSE LET r == UpdateFallingObjects(hs[i], objs, dt)
         IN  FallingPass([hs EXCEPT ![i] = r.hole], r.objects, dt, i + 1)

\* a slip in the respawn sweep: the mode is not asked
NeedRespawnAnyMode(hs, allows_respawn) ==
    {i \in DOMAIN hs : ~hs[i].is_alive /\ hs[i].respawn_timer <= 0}

\* the holes the respawn sweep relocates
NeedRespawn(hs, allows_respawn) ==
    {i \in DOMAIN hs : ~hs[i].is_alive /\ hs[i].respawn_timer <= 0 /\ allows_respawn}

\* the respawn sweep; spawn[i] is the position get_spawn_position returns for hole i
RespawnSweep(hs, allows_respawn, spawn) ==
    [i \in DOMAIN hs |->
        IF i \in DOMAIN spawn THEN Respawn(hs[i], spawn[i][1], spawn[i][2]) ELSE hs[i]]

\* a slip in the victory check: the player's death ends the session in every mode
VictoryCheckAnyDeath(mode, time_up, hs, player_idx, objs) ==
    \/ time_up
    \/ mode = "Battle" /\ AliveCount(hs) <= 1
    \/ mode = "Solo" /\ CityConsumed(objs)
    \/ ~hs[player_idx].is_alive

\* the victory check at the end of the frame
VictoryCheck(mode, time_up, hs, player_idx, objs) ==
    \/ time_up
    \/ mode = "Battle" /\ AliveCount(hs) <= 1
    \/ mode = "Solo" /\ CityConsumed(objs)
    \/ ~hs[player_idx].is_alive /\ ~AllowsRespawn(mode)

----------------------------------------------------------------------------
(* A game session: GameSession::new, or a session some frames in, then frames *)

\* Roster: the player and MaxBots bots (none in Solo)
BotCount(mode) == IF mode = "Solo" THEN 0 ELSE MaxBots

\* Two points of the street along x = 200, the first on its crossing with the
\* street along y = 200
SpawnPoints == { <<200, 200>>, <<200, 240>> }

\* A hole some frames into a session, grown to a given area
SessionHole(x, y, isPlayer, area, eliminations) ==
    [NewHole(x, y, isPlayer) EXCEPT
        !.area = area,
        !.radius = Min(RadiusOfArea(area), MAX_RADIUS),
        !.eliminations = eliminations]

PlayerSamples ==
    { NewHole(200, 200, TRUE),
      SessionHole(200, 200, TRUE, PI100 * 100 * 100, 3),
      SessionHole(200, 200, TRUE, PI100 * 190 * 190, 9) }

\* A dead bot: in Classic at the initial size with 0.5 s of its countdown left,
\* in the other modes as combat left it
DeadBot(mode) ==
    IF AllowsRespawn(mode)
    THEN [Die(NewHole(200, 200, FALSE), RespawnTime(mode)) EXCEPT !.respawn_timer = 5]
    ELSE [SessionHole(200, 200, FALSE, PI100 * 100 * 100, 3) EXCEPT !.is_alive = FALSE]

BotSamples(mode) ==
    { NewHole(200, 240, FALSE),
      SessionHole(200, 200, FALSE, PI100 * 100 * 100, 3),
      DeadBot(mode) }

\* holes arrays of a session that is being played: in Battle two holes at
\* least are alive
SessionHoles(mode) ==
    { <<p>> \o bots : p \in PlayerSamples,
                      bots \in { b \in [1..BotCount(mode) -> BotSamples(mode)] :
                                   mode = "Battle" =>
                                       \E k \in DOMAIN b : b[k].is_alive } }

\* The world cut down to a hydrant and a trash can by the first spawn point;
\* untouched, or the hydrant 0.3 of its way into a hole there
SessionWorlds ==
    { << NewObject(198, 200, 4), NewObject(210, 215, 5) >>,
      << [StartFalling(NewObject(198, 200, 4), 200, 200) EXCEPT !.state.progress = 3],
         NewObject(210, 215, 5) >> }

\* The clock just started, or with 0.3 s left
SessionClocks(mode) ==
    { StartedClock(RoundDuration(mode)),
      [StartedClock(RoundDuration(mode)) EXCEPT
          !.remaining = 3, !.elapsed = RoundDuration(mode) - 3] }

\* Inputs of a frame: its time, the keys held, the dash key, and the direction
\* the bot controllers return
FrameInputs ==
    { [dt |-> 2, keys |-> {}, shift |-> FALSE, dir |-> <<0, 0>>],
      [dt |-> 2, keys |-> {"A", "W"}, shift |-> FALSE, dir |-> <<-1, 0>>],
      [dt |-> 5, keys |-> {"D"}, shift |-> TRUE, dir |-> <<-1, 0>>],
      [dt |-> 5, keys |-> {}, shift |-> FALSE, dir |-> <<0, 0>>] }

Init ==
    /\ \E mode \in Modes :
          /\ holes \in SessionHoles(mode)
          /\ \E c \in SessionClocks(mode) :
                sess = [mode |-> mode, state |-> "Playing", game_over |-> FALSE,
                        player_idx |-> 1, clock |-> c,
                        leaderboard |-> LeaderboardUpdate(NewLeaderboard, holes),
                        pause_selection |-> 0, results_selection |-> 0,
                        results_time |-> 0]
    /\ objects \in SessionWorlds
    /\ cells = Build(objects)
    /\ call = NoCall
    /\ steps = 0

\* a slip in the order of the passes: the swallow checks run on the positions
\* of the frame before, and the holes are moved afterwards
UpdateGameSwallowFirst ==
    /\ sess.state = "Playing"
    /\ ~sess.game_over
    /\ steps < MaxFrames
    /\ \E escape \in BOOLEAN :
          IF escape
          THEN /\ sess' = [sess EXCEPT !.clock = ClockPause(@), !.state = "Pause",
                                       !.pause_selection = 0]
               /\ call' = [op |-> "pause"]
               /\ UNCHANGED <<holes, objects, cells, steps>>
          ELSE \E input \in FrameInputs :
                \E ticked \in {ClockUpdate(sess.clock, input.dt)} :
                \E steered \in {BotInput(PlayerInput(holes, sess.player_idx,
                                                     input.keys, input.shift),
                                         input.dir)} :
                \E grid \in {Build(objects)} :
                \E swallowed \in {SwallowPass(steered, objects, grid, 1)} :
                \E moved \in {UpdateHoles(swallowed.holes, input.dt)} :
                \E fallen \in {FallingPass(moved, swallowed.objects,
                                           input.dt, 1)} :
                \E combat \in {ProcessHoleCombat(fallen.holes, sess.player_idx,
                                                 AllowsRespawn(sess.mode),
                                                 RespawnTime(sess.mode))} :
                \E spawn \in [NeedRespawn(combat.holes, AllowsRespawn(sess.mode))
                              -> SpawnPoints] :
                \E swept \in {RespawnSweep(combat.holes, AllowsRespawn(sess.mode),
                                           spawn)} :
                \E board \in {LeaderboardUpdate(sess.leaderboard, swept)} :
                \E over \in {VictoryCheck(sess.mode, ticked.time_up, swept,
                                          sess.player_idx, fallen.objects)} :
                   /\ holes' = swept
                   /\ objects' = fallen.objects
                   /\ cells' = grid
                   /\ sess' = [sess EXCEPT
                                 !.clock = ticked.clock,
                                 !.leaderboard = board,
                                 !.game_over = over,
                                 !.state = IF over THEN "Results" ELSE @,
                                 !.results_selection = IF over THEN 0 ELSE @]
                   /\ call' = [op |-> "update_game", dt |-> input.dt,
                               input |-> input,
                               eliminations |-> combat.eliminations,
                               combat_holes |-> combat.holes,
                               respawned |-> DOMAIN spawn,
                               spawn |-> spawn,
                               city_consumed |-> ConsumptionPercentage(fallen.objects)]
                   /\ steps' = steps + 1

\* update_game, called while the game state is Playing.  With Escape pressed it
\* pauses the clock and returns; otherwise it runs the passes of the frame in
\* the order of the code: clock, player input, bot AI, hole updates, grid
\* rebuild, swallow, falling objects, combat, respawn sweep, leaderboard,
\* victory check.  The VFX and camera passes write only their own state,
\* which is not part of the model.  Every bot is steered in the same direction.
\* limit is the number of frames modelled, inputs the inputs a frame may get.
UpdateGameWithin(limit, inputs) ==
    /\ sess.state = "Playing"
    /\ ~sess.game_over
    /\ steps < limit
    /\ \E escape \in BOOLEAN :
          IF escape
          THEN /\ sess' = [sess EXCEPT !.clock = ClockPause(@), !.state = "Pause",
                                       !.pause_selection = 0]
               /\ call' = [op |-> "pause"]
               /\ UNCHANGED <<holes, objects, cells, steps>>
          ELSE \E input \in inputs :
                \E ticked \in {ClockUpdate(sess.clock, input.dt)} :
                \E steered \in {BotInput(PlayerInput(holes, sess.player_idx,
                                                     input.keys, input.shift),
                                         input.dir)} :
                \E moved \in {UpdateHoles(steered, input.dt)} :
                \E grid \in {Build(objects)} :
                \E swallowed \in {SwallowPass(moved, objects, grid, 1)} :
                \E fallen \in {FallingPass(swallowed.holes, swallowed.objects,
                                           input.dt, 1)} :
                \E combat \in {ProcessHoleCombat(fallen.holes, sess.player_idx,
                                                 AllowsRespawn(sess.mode),
                                                 RespawnTime(sess.mode))} :
                \E spawn \in [NeedRespawn(combat.holes, AllowsRespawn(sess.mode))
                              -> SpawnPoints] :
                \E swept \in {RespawnSweep(combat.holes, AllowsRespawn(sess.mode),
                                           spawn)} :
                \E board \in {LeaderboardUpdate(sess.leaderboard, swept)} :
                \E over \in {VictoryCheck(sess.mode, ticked.time_up, swept,
                                          sess.player_idx, fallen.objects)} :
                   /\ holes' = swept
                   /\ objects' = fallen.objects
                   /\ cells' = grid
                   /\ sess' = [sess EXCEPT
                                 !.clock = ticked.clock,
                                 !.leaderboard = board,
                                 !.game_over = over,
                                 !.state = IF over THEN "Results" ELSE @,
                                 !.results_selection = IF over THEN 0 ELSE @]
                   /\ call' = [op |-> "update_game", dt |-> input.dt,
                               input |-> input,
                               eliminations |-> combat.eliminations,
                               combat_holes |-> combat.holes,
                               respawned |-> DOMAIN spawn,
                               spawn |-> spawn,
                               city_consumed |-> ConsumptionPercentage(fallen.objects)]
                   /\ steps' = steps + 1

\* update_game in a session of up to MaxFrames frames
UpdateGame == UpdateGameWithin(MaxFrames, FrameInputs)

\* handle_pause_input, Escape or Enter on "Resume"
ResumeGame ==
    /\ sess.state = "Pause"
    /\ sess' = [sess EXCEPT !.clock = ClockResume(@), !.state = "Playing"]
    /\ call' = [op |-> "resume"]
    /\ UNCHANGED <<holes, objects, cells, steps>>

Next == UpdateGame \/ ResumeGame

Spec == Init /\ [][Next]_vars

----------------------------------------------------------------------------
(* Calls of BotController::update for the bots of a holes array, with calls of
   update_falling_objects in between *)

\* Inputs: the bot that decides stands at (500, 500), fresh or of radius 60
BotSubjects ==
    { NewHole(500, 500, FALSE),
      SessionHole(500, 500, FALSE, PI100 * 60 * 60, 1) }

\* Inputs: the player near the bot.  Of radius 100, 120 away, 260 away, or
\* dead; or of radius 40, 100 away.
BotPlayers ==
    { SessionHole(620, 500, TRUE, PI100 * 100 * 100, 3),
      SessionHole(500, 760, TRUE, PI100 * 100 * 100, 3),
      [SessionHole(520, 520, TRUE, PI100 * 100 * 100, 3) EXCEPT !.is_alive = FALSE],
      SessionHole(500, 400, TRUE, PI100 * 40 * 40, 0) }

\* Inputs: the other bot.  Of radius 100, 120 away on the other side; of radius
\* 40, 90 away; fresh, 244 away, or 40 away and invincible.
BotRivals ==
    { SessionHole(380, 500, FALSE, PI100 * 100 * 100, 3),
      SessionHole(500, 590, FALSE, PI100 * 40 * 40, 0),
      NewHole(700, 640, FALSE),
      [NewHole(540, 500, FALSE) EXCEPT !.invincible = 5] }

\* Inputs: a hydrant 20 away and a car 22 away (the car has the lower score),
\* the hydrant on the ground or 0.7 of its way into the bot; or the falling
\* hydrant and a building that fits no hole
BotWorlds ==
    { << NewObject(520, 500, 4), NewObject(500, 522, 18) >>,
      << [StartFalling(NewObject(520, 500, 4), 500, 500) EXCEPT !.state.progress = 7],
         NewObject(500, 522, 18) >>,
      << [StartFalling(NewObject(520, 500, 4), 500, 500) EXCEPT !.state.progress = 7],
         NewBuilding(600, 500, 120, 80) >> }

\* Inputs of a call of update: the frame time, and what the random numbers
\* make of the hunt roll, the next decision time and the wander jitter
BotRolls ==
    { [dt |-> 2, hunt_roll |-> TRUE, rearm |-> 3, jitter |-> 1],
      [dt |-> 2, hunt_roll |-> FALSE, rearm |-> 5, jitter |-> -1],
      [dt |-> 5, hunt_roll |-> TRUE, rearm |-> 5, jitter |-> -1],
      [dt |-> 5, hunt_roll |-> FALSE, rearm |-> 3, jitter |-> 1] }

\* Inputs: the bot's controller, as constructed, or 1.2 s into a hunt with the
\* next decision due in 0.2 s
BotControllers ==
    { DefaultController,
      [DefaultController EXCEPT !.state = "Hunting", !.target = Some(<<700, 640>>),
                                !.state_timer = 12, !.decision_cooldown = 2] }

InitBot ==
    /\ \E p \in BotPlayers, b \in BotSubjects, q \in BotRivals :
          holes = <<p, b, q>>
    /\ objects \in BotWorlds
    /\ cells = Build(objects)
    /\ call = NoCall
    /\ steps = 0
    /\ \E c \in BotControllers :
          sess = [state |-> "none",
                  bot_controllers |-> <<DefaultController, c, DefaultController>>]

\* the bot AI step of update_game for the bot at index 2: bot_controllers[i].update
\* with a clone of the bot's hole (the velocity it returns goes to set_velocity)
BotUpdate ==
    /\ steps < MaxBotCalls
    /\ \E i \in {2}, roll \in BotRolls :
          /\ holes[i].is_alive
          /\ \E r \in {ControllerUpdate(sess.bot_controllers[i], holes[i], i, holes,
                                        objects, cells, roll.dt, roll.hunt_roll,
                                        roll.rearm, roll.jitter)} :
                /\ sess' = [sess EXCEPT !.bot_controllers[i] = r.ctrl]
                /\ call' = [op |-> "bot_update", bot |-> i, dt |-> roll.dt,
                            decided |-> r.decided, ret |-> r.ret]
    /\ steps' = steps + 1
    /\ UNCHANGED <<holes, objects, cells>>

\* update_falling_objects for that bot's hole, after the grid was built
BotFalling ==
    /\ steps < MaxBotCalls
    /\ \E i \in {2}, dt \in DtSet :
          \E r \in {UpdateFallingObjects(holes[i], objects, dt)} :
             /\ holes' = [holes EXCEPT ![i] = r.hole]
             /\ objects' = r.objects
             /\ call' = [op |-> "update_falling_objects", hole |-> i, dt |-> dt]
    /\ steps' = steps + 1
    /\ UNCHANGED <<cells, sess>>

NextBot == BotUpdate \/ BotFalling

SpecBot == InitBot /\ [][NextBot]_vars

----------------------------------------------------------------------------
(* Claims *)

\* radius = min(sqrt(area/pi), MAX_RADIUS)
RadiusMatchesArea(h) == h.radius = Min(RadiusOfArea(h.area), MAX_RADIUS)

\* C1: after any sequence of grow, consume_hole and die calls on fresh holes,
\* every hole has radius = min(sqrt(area/pi), MAX_RADIUS), MAX_RADIUS = 200.
C1_RadiusAfterHoleCalls ==
    /\ MAX_RADIUS = 200
    /\ \A i \in DOMAIN holes : RadiusMatchesArea(holes[i])

\* C1 witness: a call left a hole whose area is beyond the cap's area (the
\* radius is held at MAX_RADIUS), and another hole has died and grown again.
C1_Witness ==
    /\ call.op \in {"grow", "consume_hole"}
    /\ \E i \in DOMAIN holes :
          /\ RadiusOfArea(holes[i].area) > MAX_RADIUS
          /\ holes[i].radius = MAX_RADIUS
    /\ \E j \in DOMAIN holes :
          /\ ~holes[j].is_alive
          /\ holes[j].area > InitialArea

\* C2: in every reachable state every hole has radius = min(sqrt(area/pi),
\* MAX_RADIUS), hence radius <= MAX_RADIUS, and area >= 0.
C2_RadiusInvariant ==
    \A i \in DOMAIN holes :
        /\ RadiusMatchesArea(holes[i])
        /\ holes[i].radius <= MAX_RADIUS
        /\ holes[i].area >= 0

\* A is index a and B index b of a two-hole array; both alive, centers closer
\* than 0.6*(rA+rB), rA > 1.2*rB, B not invincible
C6_Applies(a, b) ==
    /\ Len(holes) = 2
    /\ holes[a].is_alive /\ holes[b].is_alive
    /\ 100 * ((holes[a].x - holes[b].x) * (holes[a].x - holes[b].x)
              + (holes[a].y - holes[b].y) * (holes[a].y - holes[b].y))
         < 36 * (holes[a].radius + holes[b].radius) * (holes[a].radius + holes[b].radius)
    /\ 10 * holes[a].radius > 12 * holes[b].radius
    /\ holes[b].invincible <= 0

\* C6: one call of process_hole_combat on [A, B], in either index order, with A
\* the larger by the margin and overlapping B: A gains exactly half of B's area
\* before the call and one elimination, and B is not alive afterwards.
C6_LargerHoleWins ==
    [][ \A a, b \in {1, 2} :
          (a # b /\ C6_Applies(a, b) /\ call'.op = "process_hole_combat")
          => /\ holes'[a].area = holes[a].area + holes[b].area \div 2
             /\ holes'[a].eliminations = holes[a].eliminations + 1
             /\ ~holes'[b].is_alive ]_vars

\* C6 witness: the call was made on [B, A] (the winner at the higher index) and
\* A has won against B
C6_Witness ==
    /\ call.op = "process_hole_combat"
    /\ Len(holes) = 2
    /\ call.eliminations = << <<2, 1>> >>
    /\ holes[2].eliminations = 1
    /\ ~holes[1].is_alive

\* radii tried in place of the holes' own
C7_Radii == {0, 1, 5, 6, 25, 29, 30, 31, 200}

\* C7: can_consume_hole is asymmetric for every pair of holes, and for the
\* first two holes at every pair of radii; process_hole_combat records at most
\* one entry per unordered pair.
C7_Asymmetric ==
    /\ \A i, j \in DOMAIN holes :
          CanConsumeHole(holes[i], holes[j]) => ~CanConsumeHole(holes[j], holes[i])
    /\ \A ra, rb \in C7_Radii :
          LET a == [holes[1] EXCEPT !.radius = ra]
              b == [holes[2] EXCEPT !.radius = rb]
          IN  CanConsumeHole(a, b) => ~CanConsumeHole(b, a)
    /\ call.op = "process_hole_combat" =>
          \A k, l \in 1..Len(call.eliminations) :
              {call.eliminations[k][1], call.eliminations[k][2]}
                = {call.eliminations[l][1], call.eliminations[l][2]} => k = l

\* C7 witness: a call recorded an entry whose winner has the higher index, so
\* the pair was decided by the second can_consume_hole check
C7_Witness ==
    /\ call.op = "process_hole_combat"
    /\ \E k \in 1..Len(call.eliminations) :
          call.eliminations[k][1] > call.eliminations[k][2]

\* the entries of this call in which the player was the loser
C9_PlayerLosses ==
    {k \in 1..Len(call.eliminations) : call.eliminations[k][2] = call.player_idx}

\* C9: process_hole_combat returns Some(w) exactly when the player lost at
\* least one pair of this call, w being a hole that won against the player;
\* it returns None otherwise, also when the player won.
C9_ReturnsPlayersKiller ==
    call.op = "process_hole_combat" =>
        /\ call.ret.is_some <=> C9_PlayerLosses # {}
        /\ call.ret.is_some =>
              \E k \in C9_PlayerLosses : call.eliminations[k][1] = call.ret.value

\* C9 witness: the player lost to two holes in one call, and the call returned
\* the winner of the later of the two entries
C9_Witness ==
    /\ call.op = "process_hole_combat"
    /\ Cardinality(C9_PlayerLosses) = 2
    /\ call.ret.is_some
    /\ call.ret.value = call.eliminations[Len(call.eliminations)][1]

\* grid cells looked at by the claims about the grid
C5_CellIndices == -2..5

\* the cell (cx, cy) as the square [cx*CELL_SIZE, (cx+1)*CELL_SIZE) on both axes
\* meets the closed interval [lo2/2, hi2/2] on an axis
C5_CellMeets(c, lo2, hi2) == 2 * CELL_SIZE * c <= hi2 /\ lo2 < 2 * CELL_SIZE * (c + 1)

\* the grid cells covering rectangle R
C5_RectCells(rect) ==
    {c \in C5_CellIndices \X C5_CellIndices :
        /\ C5_CellMeets(c[1], 2 * rect.x, 2 * (rect.x + rect.w))
        /\ C5_CellMeets(c[2], 2 * rect.y, 2 * (rect.y + rect.h))}

\* the grid cells the bounding box (x +/- width/2, y +/- height/2) covers
C5_BoxCells(obj) ==
    {c \in C5_CellIndices \X C5_CellIndices :
        /\ C5_CellMeets(c[1], 2 * obj.x - obj.width, 2 * obj.x + obj.width)
        /\ C5_CellMeets(c[2], 2 * obj.y - obj.height, 2 * obj.y + obj.height)}

\* C5: after build(objects), query_rect(R) is, as a set, exactly the indices of
\* the non-consumed objects whose bounding box covers a cell of the cell range
\* covering R, and no index is returned twice.
C5_QueryRectExact ==
    call.op = "build" =>
        \A rect \in QueryRects :
            LET q == QueryRect(cells, rect)
            IN  /\ Elements(q) =
                     {i \in DOMAIN objects :
                         /\ ~objects[i].consumed
                         /\ C5_BoxCells(objects[i]) \cap C5_RectCells(rect) # {}}
                /\ \A k, l \in 1..Len(q) : q[k] = q[l] => k = l

\* C5 witness: a grid was built and a rectangle covers several cells of one
\* object, which is returned, and a cell of a consumed object, which is not
C5_Witness ==
    /\ call.op = "build"
    /\ \E rect \in QueryRects, i, j \in DOMAIN objects :
          /\ i \in Elements(QueryRect(cells, rect))
          /\ Cardinality(C5_BoxCells(objects[i]) \cap C5_RectCells(rect)) >= 2
          /\ objects[j].consumed
          /\ C5_BoxCells(objects[j]) \cap C5_RectCells(rect) # {}

\* centers and radii asked of query_radius
C4_Circles == { <<100, 100, 50>>, <<150, 150, 200>>, <<0, 0, 10>> }

\* C4: right after build(objects) no query returns the index of a consumed object
C4_QueriesSkipConsumed ==
    call.op = "build" =>
        /\ \A rect \in QueryRects :
              \A i \in Elements(QueryRect(cells, rect)) : ~objects[i].consumed
        /\ \A c \in C4_Circles :
              \A i \in Elements(QueryRadius(cells, c[1], c[2], c[3])) : ~objects[i].consumed

\* C4: after build(objects) no index of a consumed object is returned by
\* query_radius or query_rect, and process_swallow never puts a consumed object
\* into Falling, also when its grid is older than the consumption.
C4_ConsumedExcluded ==
    /\ []C4_QueriesSkipConsumed
    /\ [][ call'.op = "process_swallow" =>
             \A i \in DOMAIN objects :
                 objects[i].consumed => objects'[i].state.tag # "Falling" ]_vars

\* C4 witness: process_swallow ran for a living hole on a grid that still lists
\* an object consumed since, which the hole could otherwise capture
C4_Witness ==
    /\ call.op = "process_swallow"
    /\ holes[call.hole].is_alive
    /\ \E i \in DOMAIN objects :
          /\ objects[i].consumed
          /\ objects[i].state = Consumed
          /\ i \in Elements(QueryRadius(cells, holes[call.hole].x, holes[call.hole].y,
                                        holes[call.hole].radius * 2))
          /\ 100 * objects[i].size <= 92 * holes[call.hole].radius
          /\ 10000 * ((objects[i].x - holes[call.hole].x) * (objects[i].x - holes[call.hole].x)
                       + (objects[i].y - holes[call.hole].y) * (objects[i].y - holes[call.hole].y))
               <= 105 * 105 * holes[call.hole].radius * holes[call.hole].radius

\* C10: process_swallow changes no hole and only moves captured objects from
\* Normal to Falling; a hole's area, radius or score changes only in
\* update_falling_objects, in a call in which a Falling object reaches
\* progress >= 1.0; for a dead hole process_swallow changes no object and
\* returns an empty list.
C10_GrowthOnlyOnCompletion ==
    [][ /\ call'.op = "process_swallow" =>
             /\ holes' = holes
             /\ \A i \in DOMAIN objects :
                   objects'[i] # objects[i] =>
                       /\ objects[i].state = Normal
                       /\ objects'[i] = [objects[i] EXCEPT !.state =
                             [tag |-> "Falling", progress |-> 0,
                              target_x |-> holes[call'.hole].x,
                              target_y |-> holes[call'.hole].y]]
             /\ ~holes[call'.hole].is_alive =>
                   (objects' = objects /\ call'.ret = << >>)
        /\ \A h \in DOMAIN holes :
             (holes'[h].area # holes[h].area \/ holes'[h].radius # holes[h].radius
                \/ holes'[h].score # holes[h].score)
             => /\ call'.op = "update_falling_objects"
                /\ \E i \in DOMAIN objects :
                      /\ objects[i].state.tag = "Falling"
                      /\ objects[i].state.progress + 3 * call'.dt >= 10
                      /\ objects'[i].state = Consumed ]_vars

\* C10 witness: process_swallow returned a captured id and the capturing hole
\* has its initial area and no score
C10_Witness ==
    /\ call.op = "process_swallow"
    /\ call.ret # << >>
    /\ objects[call.ret[1]].state.tag = "Falling"
    /\ holes[call.hole].score = 0
    /\ holes[call.hole].area \in {InitialArea, PI100 * 100 * 100}

\* one step of an object's state: Normal may stay or move on, Falling stays or
\* becomes Consumed, Consumed stays; the consumed flag is never cleared
C3_ObjectStep(o, n) ==
    /\ o.state.tag = "Falling" => n.state.tag \in {"Falling", "Consumed"}
    /\ o.state.tag = "Consumed" => n.state.tag = "Consumed"
    /\ o.consumed => n.consumed
    /\ n.consumed => n.state.tag = "Consumed"

\* C3: across the frames of a session no object goes from Falling or Consumed
\* back to Normal, none goes from Consumed to Falling, and an object whose
\* consumed flag is set keeps it, with state Consumed.
C3_OneDirectional ==
    [][ /\ Len(objects') = Len(objects)
        /\ \A i \in DOMAIN objects : C3_ObjectStep(objects[i], objects'[i]) ]_vars

\* C3 witness: at the end of a frame an object is consumed that was already
\* consumed when this frame's grid was built (the grid does not list it), with
\* an alive hole standing close enough to capture it.
C3_Witness ==
    /\ call.op = "update_game"
    /\ \E i \in DOMAIN objects :
          /\ objects[i].consumed /\ objects[i].state = Consumed
          /\ \A c \in DOMAIN cells : i \notin Elements(cells[c])
          /\ \E h \in DOMAIN holes :
                /\ holes[h].is_alive
                /\ CanCaptureAt(holes[h], objects[i].x, objects[i].y, objects[i].size)

\* the losers of the frame's process_hole_combat call, as the call left them
C8_LosersLeaveCall ==
    call.op = "update_game" =>
        \A k \in DOMAIN call.eliminations :
            LET loser == call.combat_holes[call.eliminations[k][2]]
            IN  /\ ~loser.is_alive
                /\ AllowsRespawn(sess.mode) =>
                      loser.respawn_timer = RespawnTime(sess.mode)

\* C8: a hole eliminated with allow_respawn = true leaves the call dead with
\* respawn_timer = respawn_time; in the modes without respawn (Battle, Solo) a
\* dead hole is dead in every later frame of the session.
C8_RespawnOrPermanent ==
    /\ []C8_LosersLeaveCall
    /\ [][ ~AllowsRespawn(sess.mode) =>
              \A i \in DOMAIN holes : ~holes[i].is_alive => ~holes'[i].is_alive ]_vars

\* C8 witness: a Battle session goes on after a frame with no elimination, with
\* a bot that combat deactivated in an earlier frame (it has its initial area
\* and no elimination of its own) and that was given time to move since.
C8_Witness ==
    /\ sess.mode = "Battle"
    /\ sess.state = "Playing"
    /\ call.op = "update_game"
    /\ call.eliminations = << >>
    /\ \E i \in DOMAIN holes :
          /\ ~holes[i].is_alive
          /\ holes[i].respawn_timer = 0
          /\ holes[i].area = InitialArea
          /\ holes[i].eliminations = 0

\* what one frame of time dt makes of an object at the fixed rate: an object
\* that was Falling (or that the frame's swallow pass set falling, from 0) has
\* its progress raised by FALL_SPEED * dt, and is Consumed exactly if that
\* reaches 1.0
C11_AtFixedRate(o, n, dt) ==
    LET start == IF o.state.tag = "Falling" THEN o.state.progress ELSE 0
        expected == start + FALL_SPEED * dt
    IN  (o.state.tag = "Falling" \/ (o.state.tag = "Normal" /\ n.state.tag # "Normal")) =>
            IF expected >= PROGRESS_ONE
            THEN n.state.tag = "Consumed"
            ELSE n.state.tag = "Falling" /\ n.state.progress = expected

\* C11: in every simulated frame of time dt each Falling object's progress
\* advances by exactly 3 * dt, however many holes the session has.
C11_ProgressPerFrame ==
    [][ call'.op = "update_game" =>
            \A i \in DOMAIN objects :
                C11_AtFixedRate(objects[i], objects'[i], call'.dt) ]_vars

\* C13: in a session with respawn, whenever a hole goes from dead to alive, in
\* that same frame Hole::respawn is applied to it (it is among the holes the
\* respawn sweep relocates to a position from get_spawn_position) and its
\* invincible timer is 1.0 at the end of the frame.
C13_RevivedAreRelocated ==
    [][ (call'.op = "update_game" /\ AllowsRespawn(sess.mode)) =>
            \A i \in DOMAIN holes :
                (~holes[i].is_alive /\ holes'[i].is_alive) =>
                    /\ i \in call'.respawned
                    /\ <<holes'[i].x, holes'[i].y>> \in SpawnPoints
                    /\ holes'[i].invincible = INVINCIBLE_TIME ]_vars

\* C14: in a session with respawn, at the end of every frame a hole that is dead
\* and waiting to respawn has the initial area and the initial radius.
C14_DeadHolesInitialSize ==
    (sess.state # "none" /\ AllowsRespawn(sess.mode)) =>
        \A i \in DOMAIN holes :
            (~holes[i].is_alive /\ holes[i].respawn_timer > 0) =>
                /\ holes[i].area = InitialArea
                /\ holes[i].radius = INITIAL_RADIUS

\* the fields of a hole that the claim says a dead hole keeps through update
C12_Frozen(h) ==
    <<h.x, h.y, h.area, h.radius, h.score, h.dash_cooldown, h.dash_active>>

\* C12: Hole::update on a hole that is not alive, whether it is in a respawn
\* countdown or deactivated for good with respawn_timer = 0, leaves x, y, area,
\* radius, score, dash_cooldown and dash_active unchanged.
C12_DeadHoleFrozen ==
    [][ call'.op = "update" =>
            \A i \in DOMAIN holes :
                ~holes[i].is_alive => C12_Frozen(holes'[i]) = C12_Frozen(holes[i]) ]_vars

\* C15: try_dash(cooldown, duration) returns true and sets dash_cooldown =
\* cooldown, dash_active = duration if and only if dash_cooldown <= 0 and the
\* stored velocity is non-zero; otherwise it returns false and leaves every
\* field of the hole unchanged.
C15_TryDashContract ==
    [][ call'.op = "try_dash" =>
            LET h == holes[call'.self]
                n == holes'[call'.self]
            IN  IF h.dash_cooldown <= 0 /\ h.velocity # <<0, 0>>
                THEN /\ call'.ret
                     /\ n = [h EXCEPT !.dash_cooldown = call'.dash_cooldown,
                                      !.dash_active = call'.dash_duration]
                ELSE ~call'.ret /\ n = h ]_vars

\* C15 witness: a try_dash has failed on a hole whose cooldown had run out,
\* because it stood still, after an earlier dash of its own.
C15_Witness ==
    /\ call.op = "try_dash"
    /\ ~call.ret
    /\ call.dash.cooldown > 0
    /\ holes[call.self].dash_cooldown <= 0
    /\ holes[call.self].velocity = <<0, 0>>

\* C16: after a try_dash that succeeded with a positive cooldown C, every
\* further try_dash fails until the update calls have advanced a total dt of
\* at least C; in particular one made immediately after the success fails.
C16_OncePerWindow ==
    [][ (call'.op = "try_dash" /\ call'.ret) =>
            call.dash.elapsed >= call.dash.cooldown ]_vars

\* C16 witness: a moving hole dashes for the second time, the window of its
\* first dash having passed.
C16_Witness ==
    /\ call.op = "try_dash"
    /\ call.ret
    /\ call.dash.count = 2
    /\ holes[call.self].velocity # <<0, 0>>

\* a decision is due in a call of update for a controller c
C18_Due(c, dt) == c.decision_cooldown - dt <= 0

\* the living holes other than hole i that threaten it: within 200 units and
\* with a radius above 1.3 times its own
C17_Threats(i) ==
    {k \in DOMAIN holes \ {i} :
        /\ holes[k].is_alive
        /\ Dist2(holes[i], holes[k].x, holes[k].y) < THREAT_RANGE * THREAT_RANGE
        /\ holes[k].radius * 10 > holes[i].radius * THREAT_MARGIN10}

\* the holes of S nearest to hole i
C17_Nearest(S, i) ==
    {k \in S : \A d \in S : Dist2(holes[i], holes[k].x, holes[k].y)
                                <= Dist2(holes[i], holes[d].x, holes[d].y)}

\* the living holes other than hole i that it can consume, within 300 units
C19_Prey(i) ==
    {k \in DOMAIN holes \ {i} :
        /\ holes[k].is_alive
        /\ CanConsumeHole(holes[i], holes[k])
        /\ Dist2(holes[i], holes[k].x, holes[k].y) < HUNT_RANGE * HUNT_RANGE}

\* the objects of the grid query of radius 4 * radius around hole i that are
\* not consumed and fit the hole
C20_Fit(i) ==
    {o \in Elements(QueryRadius(cells, holes[i].x, holes[i].y, holes[i].radius * 4)) :
        ~objects[o].consumed /\ objects[o].size * 100 <= holes[i].radius * K_FIT}

\* distance - 0.1 * mass of object o for hole i, in tenths
C20_Score(i, o) == Dist10(holes[i], objects[o].x, objects[o].y) - objects[o].mass

\* C17: whenever a bot's decision is evaluated and some other living hole is
\* within 200 units with radius > 1.3 * own radius, the controller ends the
\* decision in state Fleeing with the position of the nearest such hole as
\* target.
C17_FleesNearestThreat ==
    [][ (call'.op = "bot_update"
         /\ C18_Due(sess.bot_controllers[call'.bot], call'.dt)
         /\ C17_Threats(call'.bot) # {}) =>
            LET n == sess'.bot_controllers[call'.bot]
            IN  /\ n.state = "Fleeing"
                /\ \E k \in C17_Nearest(C17_Threats(call'.bot), call'.bot) :
                       n.target = Some(<<holes[k].x, holes[k].y>>) ]_vars

\* C17 witness: a bot that was hunting, with a prey in reach and objects that
\* fit around it, has decided to flee.
C17_Witness ==
    /\ call.op = "bot_update"
    /\ call.decided
    /\ steps = 1
    /\ sess.bot_controllers[call.bot].state_timer > 12
    /\ sess.bot_controllers[call.bot].state = "Fleeing"
    /\ C19_Prey(call.bot) # {}
    /\ C20_Fit(call.bot) # {}

\* C18: update changes the controller's state and target only in the calls
\* where decision_cooldown, dt subtracted, is <= 0; after a decision
\* decision_cooldown is between 0.3 and 0.6.
C18_DecidesOnlyWhenDue ==
    [][ call'.op = "bot_update" =>
            LET c == sess.bot_controllers[call'.bot]
                n == sess'.bot_controllers[call'.bot]
            IN  IF C18_Due(c, call'.dt)
                THEN n.decision_cooldown \in 3..6
                ELSE /\ n.state = c.state
                     /\ n.target = c.target
                     /\ n.decision_cooldown = c.decision_cooldown - call'.dt ]_vars

\* C18 witness: a call of update has made no decision although a decision
\* would have changed the state: the bot keeps farming toward an object that
\* has been consumed since.
C18_Witness ==
    /\ call.op = "bot_update"
    /\ ~call.decided
    /\ LET c == sess.bot_controllers[call.bot]
       IN  /\ c.state = "Farming"
           /\ MakeDecision(c, holes[call.bot], call.bot, holes, objects, cells,
                            FALSE).state = "Wandering"

\* C19: a decision ends in Hunting only if there is no threat, the bot's
\* radius is > 50 and some other living hole within 300 units can be consumed
\* by it; the target is the position of the nearest such hole.
C19_HuntsOnlyPrey ==
    [][ (call'.op = "bot_update"
         /\ C18_Due(sess.bot_controllers[call'.bot], call'.dt)
         /\ sess'.bot_controllers[call'.bot].state = "Hunting") =>
            /\ C17_Threats(call'.bot) = {}
            /\ holes[call'.bot].radius > HUNT_RADIUS
            /\ \E k \in C17_Nearest(C19_Prey(call'.bot), call'.bot) :
                   sess'.bot_controllers[call'.bot].target
                       = Some(<<holes[k].x, holes[k].y>>) ]_vars

\* C19 witness: a bot has decided to hunt a hole while a smaller one, nearer
\* to it, is invincible.
C19_Witness ==
    /\ call.op = "bot_update"
    /\ call.decided
    /\ sess.bot_controllers[call.bot].state = "Hunting"
    /\ \E k \in DOMAIN holes \ {call.bot} :
          /\ holes[k].is_alive
          /\ holes[k].invincible > 0
          /\ holes[call.bot].radius * 10 > holes[k].radius * MARGIN10
          /\ \A p \in C19_Prey(call.bot) :
                 Dist2(holes[call.bot], holes[k].x, holes[k].y)
                     < Dist2(holes[call.bot], holes[p].x, holes[p].y)

\* C20: a decision that finds no threat and does not hunt ends in Farming with
\* the position of the object of lowest score distance - 0.1 * mass among the
\* non-consumed fitting objects of the grid query of radius 4 * radius as
\* target, and in Wandering without target exactly when there is no such object.
C20_FarmsBestOrWanders ==
    [][ (call'.op = "bot_update"
         /\ C18_Due(sess.bot_controllers[call'.bot], call'.dt)
         /\ C17_Threats(call'.bot) = {}
         /\ sess'.bot_controllers[call'.bot].state # "Hunting") =>
            LET n == sess'.bot_controllers[call'.bot]
                fit == C20_Fit(call'.bot)
            IN  IF fit = {}
                THEN n.state = "Wandering" /\ n.target = None
                ELSE /\ n.state = "Farming"
                     /\ \E o \in fit :
                           /\ \A d \in fit : C20_Score(call'.bot, o)
                                                 <= C20_Score(call'.bot, d)
                           /\ n.target = Some(<<objects[o].x, objects[o].y>>) ]_vars

\* C20 witness: a bot has decided to farm an object while another that fits is
\* nearer to it.
C20_Witness ==
    /\ call.op = "bot_update"
    /\ call.decided
    /\ LET c == sess.bot_controllers[call.bot]
       IN  /\ c.state = "Farming"
           /\ \E o \in C20_Fit(call.bot), d \in C20_Fit(call.bot) :
                 /\ c.target = Some(<<objects[o].x, objects[o].y>>)
                 /\ Dist2(holes[call.bot], objects[d].x, objects[d].y)
                       < Dist2(holes[call.bot], objects[o].x, objects[o].y)

\* ---------------------------------------------------------------------------
\* World::generate.  The world is GenBlocks blocks a side (10 in the code) and
\* gets GenMisc hydrants and trash cans (50 in the code).  StdRng is a
\* deterministic generator; it is modelled by a linear congruential one, each
\* draw advancing the state once.  Lengths are whole units.
\* ---------------------------------------------------------------------------

STREET_WIDTH == 40
BLOCK_SIZE == 200
AVENUE_INTERVAL == 3
RNG_MODULUS == 65537

GenWidth == GenBlocks * BLOCK_SIZE
GenHeight == GenBlocks * BLOCK_SIZE

\* a slip in the seeding: the generator also takes in the state of the process
SeedFromEntropy(seed) == (seed + steps) % RNG_MODULUS

\* StdRng::seed_from_u64
SeedFromU64(seed) == seed % RNG_MODULUS

\* one step of the generator
RandNext(s) == (s * 75 + 74) % RNG_MODULUS

\* rng.gen::<f32>() read off the state after the step, in thousandths
F32Of(s) == (s * 1000) \div RNG_MODULUS

\* rng.gen_range(lo..hi) over integers read off the state after the step
RangeOf(s, lo, hi) == lo + (s % (hi - lo))

\* ObjectType::base_size
BaseSize(t) ==
    CASE t = "Building" -> 60
      [] t = "Car" -> 18
      [] t = "Tree" -> 12
      [] t = "Person" -> 5
      [] t = "Lamppost" -> 6
      [] t = "Hydrant" -> 4
      [] t = "TrashCan" -> 5
      [] t = "Bench" -> 8

\* the id and obj_type fields of a WorldObject, which the other calls do not read
GenObject(o, id, t) ==
    [ id |-> id, obj_type |-> t,
      x |-> o.x, y |-> o.y, width |-> o.width, height |-> o.height,
      size |-> o.size, mass |-> o.mass, state |-> o.state, consumed |-> o.consumed ]

\* objects.push(WorldObject::new(x, y, obj_type, &mut rng)): three draws (size
\* variation 0.8..1.2, colour, rotation) and one id from NEXT_ID
PushNew(g, x, y, t) ==
    LET s1 == RandNext(g.rng)
        s3 == RandNext(RandNext(s1))
        size == (BaseSize(t) * (800 + ((F32Of(s1) * 400) \div 1000))) \div 1000
    IN  [g EXCEPT !.rng = s3,
                  !.objects = Append(@, GenObject(NewObject(x, y, size), g.next_id, t)),
                  !.next_id = @ + 1]

\* objects.push(WorldObject::new_building(..)): one draw (the gray) and one id
PushBuilding(g, x, y, width, height) ==
    [g EXCEPT !.rng = RandNext(@),
              !.objects = Append(@, GenObject(NewBuilding(x, y, width, height),
                                              g.next_id, "Building")),
              !.next_id = @ + 1]

\* In the loops below the generator state after one statement is bound to a
\* name before the next statement works on it: {F(v) : v \in {e}} holds the
\* one value F(e).

RECURSIVE Scatter(_, _, _, _)
\* n objects of one type, each at a drawn point of the rectangle
Scatter(g, n, rect, t) ==
    IF n = 0 THEN g
    ELSE LET s1 == RandNext(g.rng)
             s2 == RandNext(s1)
             ox == rect.x + ((F32Of(s1) * rect.w) \div 1000)
             oy == rect.y + ((F32Of(s2) * rect.h) \div 1000)
         IN  CHOOSE out \in {Scatter(pushed, n - 1, rect, t) :
                                 pushed \in {PushNew([g EXCEPT !.rng = s2], ox, oy, t)}} :
                 TRUE

RECURSIVE Buildings(_, _, _, _)
\* the buildings of a city block, side by side
Buildings(g, i, building_count, rect) ==
    IF i >= building_count THEN g
    ELSE LET bw == (rect.w \div building_count) - 15
             bh == rect.h - 30
             ox == rect.x + 7 + i * (bw + 15)
             oy == rect.y + 15
         IN  CHOOSE out \in {Buildings(pushed, i + 1, building_count, rect) :
                                 pushed \in {PushBuilding(g, ox + (bw \div 2),
                                                           oy + (bh \div 2), bw, bh)}} :
                 TRUE

\* one turn of the block loops: the park flag, the block, its objects
GenBlock(g, bx, by) ==
    LET rect == [x |-> bx * BLOCK_SIZE + (STREET_WIDTH \div 2),
                 y |-> by * BLOCK_SIZE + (STREET_WIDTH \div 2),
                 w |-> BLOCK_SIZE - STREET_WIDTH,
                 h |-> BLOCK_SIZE - STREET_WIDTH]
        s1 == RandNext(g.rng)
        is_park == F32Of(s1) < 150
        s2 == RandNext(s1)
        g1 == [g EXCEPT !.rng = s2,
                        !.blocks = Append(@, [rect |-> rect, is_park |-> is_park])]
    IN  IF is_park
        THEN CHOOSE out \in {Scatter([trees EXCEPT !.rng = RandNext(@)],
                                      RangeOf(RandNext(trees.rng), 2, 5), rect, "Bench") :
                                 trees \in {Scatter(g1, RangeOf(s2, 5, 12), rect, "Tree")}} :
                 TRUE
        ELSE Buildings(g1, 0, RangeOf(s2, 1, 4), rect)

RECURSIVE GenBlocksFrom(_, _)
\* for by in 0..num_blocks_y { for bx in 0..num_blocks_x }
GenBlocksFrom(g, k) ==
    IF k >= GenBlocks * GenBlocks THEN g
    ELSE CHOOSE out \in {GenBlocksFrom(built, k + 1) :
                             built \in {GenBlock(g, k % GenBlocks, k \div GenBlocks)}} :
             TRUE

\* the i-th horizontal or vertical street
StreetAt(i, horizontal) ==
    LET is_avenue == i % AVENUE_INTERVAL = 0
        width == IF is_avenue THEN (STREET_WIDTH * 3) \div 2 ELSE STREET_WIDTH
        at == i * BLOCK_SIZE - (width \div 2)
    IN  IF horizontal
        THEN [rect |-> [x |-> 0, y |-> at, w |-> GenWidth, h |-> width],
              is_avenue |-> is_avenue]
        ELSE [rect |-> [x |-> at, y |-> 0, w |-> width, h |-> GenHeight],
              is_avenue |-> is_avenue]

\* the streets vector: the horizontal streets, then the vertical ones
Streets ==
    [k \in 1..(2 * (GenBlocks + 1)) |->
        IF k <= GenBlocks + 1 THEN StreetAt(k - 1, TRUE)
        ELSE StreetAt(k - GenBlocks - 2, FALSE)]

RECURSIVE Lampposts(_, _, _)
\* the lamppost loop of one street: every 80 units, each with chance 0.7
Lampposts(g, street, at) ==
    LET horizontal == street.rect.w > street.rect.h
        end == IF horizontal THEN street.rect.x + street.rect.w
               ELSE street.rect.y + street.rect.h
    IN  IF at >= end THEN g
        ELSE LET s1 == RandNext(g.rng)
                 g1 == [g EXCEPT !.rng = s1]
             IN  CHOOSE out \in
                     {Lampposts(lit, street, at + 80) :
                        lit \in {IF F32Of(s1) >= 700 THEN g1
                                 ELSE IF horizontal
                                 THEN PushNew(g1, at, street.rect.y + 5, "Lamppost")
                                 ELSE PushNew(g1, street.rect.x + 5, at, "Lamppost")}} :
                     TRUE

RECURSIVE Cars(_, _, _)
\* the cars of an avenue, on its centre line
Cars(g, n, street) ==
    IF n = 0 THEN g
    ELSE LET s1 == RandNext(g.rng)
             r == street.rect
             cx == IF r.w > r.h THEN r.x + ((F32Of(s1) * r.w) \div 1000)
                   ELSE r.x + (r.w \div 2)
             cy == IF r.w > r.h THEN r.y + (r.h \div 2)
                   ELSE r.y + ((F32Of(s1) * r.h) \div 1000)
         IN  CHOOSE out \in {Cars(pushed, n - 1, street) :
                                 pushed \in {PushNew([g EXCEPT !.rng = s1], cx, cy, "Car")}} :
                 TRUE

\* one turn of the street loop: lampposts, cars on avenues, people
StreetObjects(g, street) ==
    LET first == IF street.rect.w > street.rect.h THEN street.rect.x + 40
                 ELSE street.rect.y + 40
    IN  CHOOSE out \in
            {Scatter([driven EXCEPT !.rng = RandNext(@)],
                     RangeOf(RandNext(driven.rng), 2, 6), street.rect, "Person") :
               driven \in
                 {IF street.is_avenue
                  THEN Cars([lit EXCEPT !.rng = RandNext(@)],
                            RangeOf(RandNext(lit.rng), 3, 8), street)
                  ELSE lit :
                    lit \in {Lampposts(g, street, first)}}} :
            TRUE

RECURSIVE StreetObjectsFrom(_, _, _)
\* for street in &streets
StreetObjectsFrom(g, streets, k) ==
    IF k > Len(streets) THEN g
    ELSE CHOOSE out \in {StreetObjectsFrom(done, streets, k + 1) :
                             done \in {StreetObjects(g, streets[k])}} :
             TRUE

RECURSIVE Misc(_, _)
\* the hydrants and trash cans
Misc(g, n) ==
    IF n = 0 THEN g
    ELSE LET s1 == RandNext(g.rng)
             s2 == RandNext(s1)
             s3 == RandNext(s2)
             x == (F32Of(s1) * GenWidth) \div 1000
             y == (F32Of(s2) * GenHeight) \div 1000
             t == IF F32Of(s3) < 500 THEN "Hydrant" ELSE "TrashCan"
         IN  CHOOSE out \in {Misc(pushed, n - 1) :
                                 pushed \in {PushNew([g EXCEPT !.rng = s3], x, y, t)}} :
                 TRUE

\* World::generate(seed), NEXT_ID being next_id when it is called: the world,
\* and NEXT_ID afterwards
Generate(seed, next_id) ==
    CHOOSE out \in
        {[streets |-> Streets, blocks |-> g3.blocks, objects |-> g3.objects,
          width |-> GenWidth, height |-> GenHeight, next_id |-> g3.next_id] :
           g3 \in
             {Misc(furnished, GenMisc) :
                furnished \in
                  {StreetObjectsFrom(built, Streets, 1) :
                     built \in {GenBlocksFrom([rng |-> SeedFromU64(seed),
                                               objects |-> << >>, blocks |-> << >>,
                                               next_id |-> next_id], 0)}}}} :
        TRUE

\* Seeds
GenSeeds == {1, 2, 7, 40}

\* The process has generated nothing yet.  sess holds NEXT_ID and the streets
\* and blocks of the world last generated, objects its objects; call.earlier
\* maps a seed to the world an earlier call made of it.
InitGen ==
    /\ holes = << >>
    /\ objects = << >>
    /\ cells = EmptyCells
    /\ call = [op |-> "none", earlier |-> << >>]
    /\ steps = 0
    /\ sess = [state |-> "none", next_id |-> 0, streets |-> << >>, blocks |-> << >>]

GenerateCall ==
    /\ steps < MaxGenCalls
    /\ \E seed \in GenSeeds :
       \E w \in {Generate(seed, sess.next_id)} :
          /\ objects' = w.objects
          /\ sess' = [sess EXCEPT !.next_id = w.next_id, !.streets = w.streets,
                                  !.blocks = w.blocks]
          /\ call' = [op |-> "generate", seed |-> seed,
                      earlier |->
                          IF call.op = "none" THEN call.earlier
                          ELSE [s \in DOMAIN call.earlier \cup {call.seed} |->
                                  IF s = call.seed
                                  THEN [streets |-> sess.streets,
                                        blocks |-> sess.blocks,
                                        objects |-> objects]
                                  ELSE call.earlier[s]]]
    /\ steps' = steps + 1
    /\ UNCHANGED <<holes, cells>>

NextGen == GenerateCall

SpecGen == InitGen /\ [][NextGen]_vars

\* The park flags of a blocks vector
C22_Parks(blocks) == [k \in DOMAIN blocks |-> blocks[k].is_park]

\* The positions and types of an objects vector
C22_Placed(objs) == [k \in DOMAIN objs |-> <<objs[k].x, objs[k].y, objs[k].obj_type>>]

BoardMasses == {300000}

\* The three holes: the player largest, or the player and one bot at the
\* initial size behind the other bot
BoardHoles ==
    { << SessionHole(100, 100, TRUE, PI100 * 60 * 60, 0),
         SessionHole(300, 100, FALSE, PI100 * 40 * 40, 0),
         NewHole(500, 100, FALSE) >>,
      << NewHole(100, 100, TRUE),
         NewHole(300, 100, FALSE),
         SessionHole(500, 100, FALSE, PI100 * 40 * 40, 0) >> }

InitBoard ==
    /\ holes \in BoardHoles
    /\ objects = << >>
    /\ cells = EmptyCells
    /\ call = [op |-> "none", seen |-> {}]
    /\ steps = 0
    /\ sess = [state |-> "none", leaderboard |-> NewLeaderboard]

\* sess.leaderboard.update(&sess.holes)
BoardUpdate ==
    /\ steps < MaxBoardCalls
    /\ \E lb \in {LeaderboardUpdate(sess.leaderboard, holes)} :
          /\ sess' = [sess EXCEPT !.leaderboard = lb]
          /\ call' = [op |-> "leaderboard_update",
                      seen |-> call.seen \cup {sess.leaderboard.entries[k].id :
                                                  k \in DOMAIN sess.leaderboard.entries},
                      player_rank |-> GetPlayerRank(lb)]
    /\ steps' = steps + 1
    /\ UNCHANGED <<holes, objects, cells>>

\* an alive hole swallows: hole.grow
BoardGrow ==
    /\ steps < MaxBoardCalls
    /\ \E i \in DOMAIN holes, m \in BoardMasses :
          /\ holes[i].is_alive
          /\ holes' = [holes EXCEPT ![i] = Grow(holes[i], m, GROWTH_MULTIPLIER)]
          /\ call' = [op |-> "grow", self |-> i, seen |-> call.seen]
    /\ steps' = steps + 1
    /\ UNCHANGED <<objects, cells, sess>>

\* an alive hole loses in combat: die(respawn_time) in Classic, is_alive =
\* false in the other modes
BoardDie ==
    /\ steps < MaxBoardCalls
    /\ \E i \in DOMAIN holes, allow_respawn \in BOOLEAN :
          /\ holes[i].is_alive
          /\ holes' = [holes EXCEPT ![i] =
                          IF allow_respawn THEN Die(holes[i], RESPAWN_TIME_CLASSIC)
                          ELSE [holes[i] EXCEPT !.is_alive = FALSE]]
          /\ call' = [op |-> "die", self |-> i, seen |-> call.seen]
    /\ steps' = steps + 1
    /\ UNCHANGED <<objects, cells, sess>>

\* hole.update for every hole over the whole respawn countdown: the holes that
\* died in Classic come back
BoardRevive ==
    /\ steps < MaxBoardCalls
    /\ \E i \in DOMAIN holes : holes[i].respawn_timer > 0
    /\ holes' = UpdateHoles(holes, RESPAWN_TIME_CLASSIC)
    /\ call' = [op |-> "update", dt |-> RESPAWN_TIME_CLASSIC, seen |-> call.seen]
    /\ steps' = steps + 1
    /\ UNCHANGED <<objects, cells, sess>>

NextBoard == BoardUpdate \/ BoardGrow \/ BoardDie \/ BoardRevive

SpecBoard == InitBoard /\ [][NextBoard]_vars

\* C23: after Leaderboard::update an entry whose rank improved compared to
\* the ranking of the previous update has rank_change = 1, one whose rank got
\* worse has -1, one whose rank is equal has 0, and an entry whose id never
\* appeared before has 0.
C23_RankChange ==
    [][ call'.op = "leaderboard_update" =>
          LET old == sess.leaderboard.entries
              new == sess'.leaderboard.entries
          IN  \A k \in DOMAIN new :
                /\ \A j \in DOMAIN old :
                      old[j].id = new[k].id =>
                          new[k].rank_change =
                              (IF k < j THEN 1 ELSE IF k > j THEN -1 ELSE 0)
                /\ new[k].id \notin call'.seen => new[k].rank_change = 0 ]_vars

\* C23 witness: after an update the entry at rank 1 had rank 3 in the update
\* before and reports 1, and another entry reports -1.
C23_Witness ==
    /\ call.op = "leaderboard_update"
    /\ Len(sess.leaderboard.entries) = 3
    /\ sess.leaderboard.entries[1].rank_change = 1
    /\ sess.leaderboard.previous_ranks[sess.leaderboard.entries[1].id] = 3
    /\ \E k \in 2..3 : sess.leaderboard.entries[k].rank_change = -1

\* C24: after every Leaderboard::update(holes) the entries are exactly the
\* alive holes, one entry each, ordered by radius non-increasing, and
\* get_player_rank is None exactly when the player hole is dead.
C24_AliveSortedPlayer ==
    call.op = "leaderboard_update" =>
        LET es == sess.leaderboard.entries
        IN  /\ {es[k].id : k \in DOMAIN es} = {i \in DOMAIN holes : holes[i].is_alive}
            /\ Len(es) = Cardinality({i \in DOMAIN holes : holes[i].is_alive})
            /\ \A k \in DOMAIN es : es[k].size = holes[es[k].id].radius
            /\ \A k \in 1..(Len(es) - 1) : es[k].size >= es[k + 1].size
            /\ ~call.player_rank.is_some
                   <=> \A i \in DOMAIN holes : holes[i].is_player => ~holes[i].is_alive
            /\ call.player_rank.is_some => es[call.player_rank.value].is_player

\* C24 witness: an update over a dead player and two alive bots of different
\* sizes, the larger one later in the array.
C24_Witness ==
    /\ call.op = "leaderboard_update"
    /\ ~holes[1].is_alive
    /\ ~call.player_rank.is_some
    /\ Len(sess.leaderboard.entries) = 2
    /\ sess.leaderboard.entries[1].id = 3
    /\ sess.leaderboard.entries[1].size > sess.leaderboard.entries[2].size

\* ---------------------------------------------------------------------------
\* Capture probes: can_capture_at and can_be_swallowed on their own
\* ---------------------------------------------------------------------------

\* Hole radii probed
CaptureRadii == {25, 40, 50, 100}

CaptureHoles ==
    { [NewHole(100, 100, TRUE) EXCEPT !.radius = r, !.area = PI100 * r * r] :
          r \in CaptureRadii }

\* Object centres: along the x axis around every capture boundary, and two
\* diagonal ones (distances 50 and 65)
CapturePositions ==
    { <<100 + d, 100>> : d \in {0, 26, 27, 42, 43, 52, 53, 105, 106} }
        \cup { <<130, 140>>, <<61, 48>> }

\* Object sizes around every fit boundary
CaptureSizes == {23, 24, 36, 37, 40, 46, 47, 92, 93}

InitCapture ==
    /\ holes \in { <<h>> : h \in CaptureHoles }
    /\ objects \in { <<NewObject(p[1], p[2], sz)>> :
                          p \in CapturePositions, sz \in CaptureSizes }
    /\ cells = EmptyCells
    /\ call = NoCall
    /\ steps = 0
    /\ sess = NoSession

\* hole.can_capture_at(obj.x, obj.y, obj.size), as process_swallow calls it
CaptureCall ==
    /\ \E i \in DOMAIN holes, k \in DOMAIN objects :
          call' = [op |-> "can_capture_at", hole |-> i, obj |-> k,
                   ret |-> CanCaptureAt(holes[i], objects[k].x, objects[k].y,
                                        objects[k].size)]
    /\ UNCHANGED <<holes, objects, cells, steps, sess>>

\* obj.can_be_swallowed(hole_radius)
FitCall ==
    /\ \E k \in DOMAIN objects, r \in CaptureRadii :
          call' = [op |-> "can_be_swallowed", obj |-> k, hole_radius |-> r,
                   ret |-> CanBeSwallowed(objects[k], r)]
    /\ UNCHANGED <<holes, objects, cells, steps, sess>>

NextCapture == CaptureCall \/ FitCall

SpecCapture == InitCapture /\ [][NextCapture]_vars

\* C27: can_capture_at(x, y, size) is true iff size <= 0.92 * radius and the
\* distance from (x, y) to the hole centre is <= 1.05 * radius; its fit
\* condition is that of can_be_swallowed(radius): size 40 fits radius 50 and
\* does not fit radius 40.
C27_CaptureRule ==
    /\ call.op = "can_capture_at" =>
          LET h  == holes[call.hole]
              o  == objects[call.obj]
              dx == o.x - h.x
              dy == o.y - h.y
          IN  /\ call.ret = ( /\ 100 * o.size <= 92 * h.radius
                              /\ 400 * (dx * dx + dy * dy)
                                     <= 441 * h.radius * h.radius )
              /\ call.ret => CanBeSwallowed(o, h.radius)
              /\ (~call.ret /\ CanBeSwallowed(o, h.radius)) =>
                     400 * (dx * dx + dy * dy) > 441 * h.radius * h.radius
    /\ call.op = "can_be_swallowed" =>
          /\ call.ret = (100 * objects[call.obj].size <= 92 * call.hole_radius)
          /\ (objects[call.obj].size = 40 /\ call.hole_radius = 50) => call.ret
          /\ (objects[call.obj].size = 40 /\ call.hole_radius = 40) => ~call.ret

\* C27 witness: a size 40 object at distance 52 is captured by a radius 50
\* hole.
C27_Witness ==
    /\ call.op = "can_capture_at"
    /\ objects[call.obj].size = 40
    /\ objects[call.obj].x = 152
    /\ holes[call.hole].radius = 50
    /\ call.ret

\* The eliminations vector applied entry by entry from the left
RECURSIVE C28_Applied(_, _, _, _)
C28_Applied(hs, elims, allow_respawn, respawn_time) ==
    IF elims = << >> THEN hs
    ELSE C28_Applied(ApplyElimination(hs, Head(elims)[1], Head(elims)[2],
                                      allow_respawn, respawn_time),
                     Tail(elims), allow_respawn, respawn_time)

\* The place of a recorded pair in the (i, j) enumeration, i < j
C28_Place(e, n) == Min(e[1], e[2]) * (n + 1) + Max(e[1], e[2])

\* C28: in process_hole_combat every recorded (winner, loser) pair satisfies,
\* on the hole states at the start of the call: both alive, centre distance
\* < 0.6 * (r1 + r2), loser not invincible, winner radius > 1.2 * loser
\* radius; and the recorded pairs are applied in ascending (i, j) order.
C28_DecidedAtStart ==
    [][ call'.op = "process_hole_combat" =>
          LET elims == call'.eliminations
              n == Len(holes)
          IN  /\ \A k \in DOMAIN elims :
                    LET w  == holes[elims[k][1]]
                        l  == holes[elims[k][2]]
                        dx == w.x - l.x
                        dy == w.y - l.y
                    IN  /\ w.is_alive /\ l.is_alive
                        /\ 25 * (dx * dx + dy * dy)
                               < 9 * (w.radius + l.radius) * (w.radius + l.radius)
                        /\ l.invincible <= 0
                        /\ 10 * w.radius > 12 * l.radius
              /\ \A k \in 1..(Len(elims) - 1) :
                    C28_Place(elims[k], n) < C28_Place(elims[k + 1], n)
              /\ holes' = C28_Applied(holes, elims, call'.allow_respawn,
                                      call'.respawn_time) ]_vars

\* C28 witness: a call recorded three pairs among three holes, so the later
\* pairs were decided on holes an earlier pair had already changed.
C28_Witness ==
    /\ call.op = "process_hole_combat"
    /\ Len(call.eliminations) = 3
    /\ call.eliminations[1][2] = call.eliminations[3][1]

\* ---------------------------------------------------------------------------
\* A duel: hole updates and combat calls on a large hole and a small one on
\* top of it, in Classic.  call.since[i] is the time Hole::update has
\* advanced since hole i last came back with invincible = 1.0 (-1: it has not
\* come back, or was eliminated since); call.before is since as it was when
\* the call started.
\* ---------------------------------------------------------------------------

\* The small hole: dead with 0.2 s or 0.5 s of its countdown left, just back
\* and invincible, or alive and vulnerable
DuelPrey ==
    { [Die(NewHole(100, 100, FALSE), RESPAWN_TIME_CLASSIC) EXCEPT !.respawn_timer = t] :
          t \in {2, 5} }
    \cup { Respawn(Die(NewHole(100, 100, FALSE), 0), 100, 100),
           NewHole(100, 100, FALSE) }

InitDuel ==
    /\ \E q \in DuelPrey :
          /\ holes = << SessionHole(100, 100, TRUE, PI100 * 100 * 100, 0), q >>
          /\ \E since \in {<< -1, IF q.invincible > 0 THEN 0 ELSE -1 >>} :
                call = [op |-> "none", since |-> since, before |-> since]
    /\ objects = << >>
    /\ cells = EmptyCells
    /\ steps = 0
    /\ sess = NoSession

\* hole.update(dt, ..) for every hole, as in a frame
DuelUpdate ==
    /\ steps < MaxDuelCalls
    /\ \E dt \in DtSet :
       \E moved \in {UpdateHoles(holes, dt)} :
          /\ holes' = moved
          /\ call' = [op |-> "update", dt |-> dt, before |-> call.since,
                      since |-> [i \in DOMAIN holes |->
                                   IF ~holes[i].is_alive /\ moved[i].is_alive THEN 0
                                   ELSE IF call.since[i] >= 0 THEN call.since[i] + dt
                                   ELSE -1]]
    /\ steps' = steps + 1
    /\ UNCHANGED <<objects, cells, sess>>

\* process_hole_combat as update_game calls it in Classic
DuelCombat ==
    /\ steps < MaxDuelCalls
    /\ \E r \in {ProcessHoleCombat(holes, 1, TRUE, RESPAWN_TIME_CLASSIC)} :
          /\ holes' = r.holes
          /\ call' = [op |-> "process_hole_combat", eliminations |-> r.eliminations,
                      before |-> call.since,
                      since |-> [i \in DOMAIN holes |->
                                   IF \E k \in DOMAIN r.eliminations :
                                          r.eliminations[k][2] = i
                                   THEN -1 ELSE call.since[i]]]
    /\ steps' = steps + 1
    /\ UNCHANGED <<objects, cells, sess>>

NextDuel == DuelUpdate \/ DuelCombat

SpecDuel == InitDuel /\ [][NextDuel]_vars

\* C30: a hole whose invincible timer is > 0 when process_hole_combat starts
\* is never a loser in that call; so a hole that came back with
\* invincible = 1.0 is not eliminated before Hole::update has advanced a
\* total of 1 second.
C30_InvincibleIsSafe ==
    [][ call'.op = "process_hole_combat" =>
          \A k \in DOMAIN call'.eliminations :
              LET loser == call'.eliminations[k][2]
              IN  /\ holes[loser].invincible <= 0
                  /\ call.since[loser] >= 0 => call.since[loser] >= INVINCIBLE_TIME
      ]_vars

\* C30 witness: the small hole was eliminated by a combat call made after
\* updates totalling at least one second since it came back.
C30_Witness ==
    /\ call.op = "process_hole_combat"
    /\ call.eliminations = << <<1, 2>> >>
    /\ call.before[2] >= INVINCIBLE_TIME
    /\ holes[1].eliminations = 1
    /\ steps >= 5

\* C21: every simulated frame runs its passes in this order: clock update,
\* player input, bot steering, integration of all hole positions, grid
\* rebuild, swallow checks per hole, falling-object advancement, combat,
\* respawn sweep, leaderboard rebuild, victory check; the swallow checks use
\* the grid built in this frame and the positions integrated in this frame.
C21_FixedOrder ==
    [][ call'.op = "update_game" =>
          \A input \in {call'.input} :
          \A ticked \in {ClockUpdate(sess.clock, input.dt)} :
          \A played \in {PlayerInput(holes, sess.player_idx, input.keys, input.shift)} :
          \A steered \in {BotInput(played, input.dir)} :
          \A moved \in {UpdateHoles(steered, input.dt)} :
          \A grid \in {Build(objects)} :
          \A swallowed \in {SwallowPass(moved, objects, grid, 1)} :
          \A fallen \in {FallingPass(swallowed.holes, swallowed.objects, input.dt, 1)} :
          \A combat \in {ProcessHoleCombat(fallen.holes, sess.player_idx,
                                           AllowsRespawn(sess.mode),
                                           RespawnTime(sess.mode))} :
          \A swept \in {RespawnSweep(combat.holes, AllowsRespawn(sess.mode),
                                     call'.spawn)} :
              /\ sess'.clock = ticked.clock
              /\ cells' = grid
              /\ objects' = fallen.objects
              /\ call'.combat_holes = combat.holes
              /\ call'.eliminations = combat.eliminations
              /\ DOMAIN call'.spawn = NeedRespawn(combat.holes, AllowsRespawn(sess.mode))
              /\ holes' = swept
              /\ sess'.leaderboard = LeaderboardUpdate(sess.leaderboard, swept)
              /\ sess'.game_over = VictoryCheck(sess.mode, ticked.time_up, swept,
                                               sess.player_idx, fallen.objects) ]_vars

\* C21 witness: a first frame in which the player steered away from the trash
\* can it could have captured from where it stood, and the can stayed on the
\* ground.
C21_Witness ==
    /\ call.op = "update_game"
    /\ steps = 1
    /\ call.input.keys # {}
    /\ holes[sess.player_idx].is_alive
    /\ objects[2].state = Normal
    /\ ~CanCaptureAt(holes[sess.player_idx], objects[2].x, objects[2].y, objects[2].size)
    /\ CanCaptureAt([holes[sess.player_idx] EXCEPT !.x = 200, !.y = 200],
                    objects[2].x, objects[2].y, objects[2].size)

\* C25: for a world with N > 0 objects get_consumption_percentage returns
\* 100.0 iff all N objects have consumed = true (falling ones do not count);
\* in Solo that value makes check_victory return CityConsumed and makes
\* update_game set game_over and go to Results in the same frame.
C25_CityConsumedEndsSolo ==
    call.op = "update_game" =>
        /\ Len(objects) > 0 =>
              (call.city_consumed = HUNDRED_PERCENT
                  <=> \A k \in DOMAIN objects : objects[k].consumed)
        /\ (sess.mode = "Solo" /\ call.city_consumed = HUNDRED_PERCENT) =>
              /\ sess.game_over
              /\ sess.state = "Results"
              /\ \A t \in {0, sess.clock.remaining}, alive \in BOOLEAN,
                    n \in 0..1, won \in BOOLEAN :
                      CheckVictory("Solo", t, alive, n, call.city_consumed, won)
                          = [kind |-> "CityConsumed", percentage |-> HUNDRED_PERCENT]

\* C25 witness: a Solo frame, with time left on the clock, in which the last
\* object of the world was consumed and the session ended.
C25_Witness ==
    /\ call.op = "update_game"
    /\ sess.mode = "Solo"
    /\ Len(objects) > 0
    /\ \A k \in DOMAIN objects : objects[k].consumed
    /\ call.city_consumed = HUNDRED_PERCENT
    /\ sess.clock.remaining > 0
    /\ holes[sess.player_idx].is_alive
    /\ sess.game_over
    /\ sess.state = "Results"

\* The holes a frame's combat pass eliminated
C29_Losers == {call.eliminations[k][2] : k \in DOMAIN call.eliminations}

\* C29: from one frame to the next a hole's area never decreases, except in a
\* frame in which that hole is eliminated in combat.
C29_AreaMonotonic ==
    [][ \A i \in DOMAIN holes :
            holes'[i].area < holes[i].area =>
                /\ call'.op = "update_game"
                /\ i \in C29_Losers' ]_vars

\* C29 witness: a frame in which one hole grew by swallowing or by combat and
\* a hole that had three eliminations to its name lost its area in combat.
C29_Witness ==
    /\ call.op = "update_game"
    /\ \E i \in C29_Losers :
          /\ holes[i].eliminations >= 3
          /\ holes[i].area = InitialArea
    /\ \E j \in DOMAIN holes : j \notin C29_Losers /\ holes[j].area > PI100 * 100 * 100

\* C26: immediately after Hole::update on a hole that is alive and not in a
\* respawn countdown, radius <= x <= world_width - radius and
\* radius <= y <= world_height - radius, whatever the velocity, dt and dash state.
C26_StaysInWorld ==
    [][ call'.op = "update" =>
            \A i \in DOMAIN holes :
                (holes[i].is_alive /\ holes[i].respawn_timer <= 0) =>
                    /\ holes'[i].radius <= holes'[i].x
                    /\ holes'[i].x <= WORLD_WIDTH - holes'[i].radius
                    /\ holes'[i].radius <= holes'[i].y
                    /\ holes'[i].y <= WORLD_HEIGHT - holes'[i].radius ]_vars

\* C26 witness: an update has stopped a dashing hole at the far edge of the
\* world.
C26_Witness ==
    /\ call.op = "update"
    /\ LET h == holes[call.self]
       IN  /\ h.is_alive
           /\ h.dash_active > 0
           /\ h.velocity[1] > 0
           /\ h.x = WORLD_WIDTH - h.radius

----------------------------------------------------------------------------
(* Who gets the growth of a captured object *)

\* the holes as the swallow pass of the frame just simulated saw them: steered
\* by the frame's input and moved by Hole::update
C31_Moved ==
    UpdateHoles(BotInput(PlayerInput(holes, sess.player_idx, call'.input.keys,
                                     call'.input.shift),
                         call'.input.dir),
                call'.dt)

\* the hole whose process_swallow captures object o: the first alive hole, in
\* the order of the swallow pass, that can capture it (0 if there is none)
C31_Captor(hs, o) ==
    LET able == {i \in DOMAIN hs :
                    hs[i].is_alive /\ CanCaptureAt(hs[i], o.x, o.y, o.size)}
    IN  IF able = {} THEN 0 ELSE CHOOSE i \in able : \A j \in able : i <= j

\* C31: when an object that hole H captured completes its fall, score += 1 (with
\* the growth) goes to H and to no other hole, whatever the number of holes: in
\* a frame in which every object that completes its fall was captured in that
\* frame, each hole's score rises by the number of completed objects it
\* captured, and a hole that captured none keeps its score.
C31_GrowthToCapturer ==
    [][ call'.op = "update_game" =>
          \A moved \in {C31_Moved} :
          \A done \in {{k \in DOMAIN objects :
                            ~objects[k].consumed /\ objects'[k].consumed}} :
              (\A k \in done : objects[k].state = Normal)
              => \A i \in DOMAIN holes :
                    holes'[i].score = holes[i].score
                        + Cardinality({k \in done :
                                          C31_Captor(moved, objects[k]) = i}) ]_vars

----------------------------------------------------------------------------
(* Scores and consumed objects *)

RECURSIVE C32_ScoreFrom(_, _)
\* the sum of score over the holes from index i on
C32_ScoreFrom(hs, i) ==
    IF i > Len(hs) THEN 0 ELSE hs[i].score + C32_ScoreFrom(hs, i + 1)

\* C32: in every state of a session the sum of score over all holes equals the
\* number of objects with consumed = true; from one frame to the next the sum
\* rises by exactly the number of objects that became Consumed in that frame.
C32_ScoreCountsConsumed ==
    /\ [](sess.state # "none" =>
            C32_ScoreFrom(holes, 1) = Cardinality({k \in DOMAIN objects : objects[k].consumed}))
    /\ [][ C32_ScoreFrom(holes', 1) - C32_ScoreFrom(holes, 1)
              = Cardinality({k \in DOMAIN objects :
                                ~objects[k].consumed /\ objects'[k].consumed}) ]_vars

\* C32 witness: after two frames both objects of the world are consumed, one
\* in each frame, and two different holes hold the two points.
C32_Witness ==
    /\ call.op = "update_game"
    /\ steps = 2
    /\ \A k \in DOMAIN objects : objects[k].consumed
    /\ C32_ScoreFrom(holes, 1) = 2
    /\ \E i, j \in DOMAIN holes : i # j /\ holes[i].score = 1 /\ holes[j].score = 1

----------------------------------------------------------------------------
(* The grid rebuild and the swallow pass of a frame, on holes and objects that
   sit on both sides of cell borders, with falling passes in between *)

\* Inputs: holes on a cell corner, beside a cell border, at the middle of a
\* cell and at the maximum radius; the first one alive or dead
BroadHoles ==
    { NewHole(100, 100, TRUE),
      [NewHole(100, 100, TRUE) EXCEPT !.is_alive = FALSE],
      NewHole(105, 195, FALSE),
      SessionHole(150, 150, FALSE, PI100 * 100 * 100, 0),
      SessionHole(300, 300, FALSE, PI100 * 200 * 200, 0) }

\* Inputs: small objects on either side of the borders x = 100, y = 100 and
\* y = 200, one at the edge of a fresh hole's reach, a car, and a building
\* that lies over three cells
BroadShapes ==
    { NewObject(90, 100, 4), NewObject(98, 100, 4), NewObject(126, 100, 4),
      NewObject(100, 75, 2), NewObject(110, 205, 4), NewObject(120, 110, 18),
      NewBuilding(250, 150, 120, 80) }

\* Frame times of the falling passes: 0.1 s and 0.5 s
BroadDts == {1, 5}

InitBroad ==
    /\ \E h \in BroadHoles, g \in BroadHoles : holes = <<h, g>>
    /\ \E n \in 1..MaxObjects : objects \in [1..n -> BroadShapes]
    /\ cells = Build(objects)
    /\ call = NoCall
    /\ steps = 0
    /\ sess = NoSession

\* update_game, grid rebuild and swallow pass
BroadSwallow ==
    /\ \E grid \in {Build(objects)} :
       \E swallowed \in {SwallowPass(holes, objects, grid, 1)} :
          /\ cells' = grid
          /\ holes' = swallowed.holes
          /\ objects' = swallowed.objects
          /\ call' = [op |-> "swallow_pass"]
    /\ UNCHANGED <<steps, sess>>

\* update_game, falling pass
BroadFalling ==
    /\ \E dt \in BroadDts :
       \E fallen \in {FallingPass(holes, objects, dt, 1)} :
          /\ holes' = fallen.holes
          /\ objects' = fallen.objects
          /\ call' = [op |-> "falling_pass", dt |-> dt]
    /\ UNCHANGED <<cells, steps, sess>>

NextBroad == BroadSwallow \/ BroadFalling

SpecBroad == InitBroad /\ [][NextBroad]_vars

\* the alive holes that can capture object o
C33_Able(hs, o) ==
    {i \in DOMAIN hs : hs[i].is_alive /\ CanCaptureAt(hs[i], o.x, o.y, o.size)}

\* C33: the broad phase loses no capture: with the grid built from the current
\* objects, every Normal object that an alive hole can capture is among the
\* indices query_radius(hole.x, hole.y, 2 * hole.radius) returns, and the swallow
\* pass moves it to Falling, towards the first hole in index order that can
\* capture it.
C33_BroadPhaseComplete ==
    [][ call'.op = "swallow_pass" =>
          \A k \in DOMAIN objects :
              (objects[k].state = Normal /\ C33_Able(holes, objects[k]) # {}) =>
                  /\ \A i \in C33_Able(holes, objects[k]) :
                        k \in Elements(QueryRadius(cells', holes[i].x, holes[i].y,
                                                   holes[i].radius * 2))
                  /\ \E i \in C33_Able(holes, objects[k]) :
                        /\ \A j \in C33_Able(holes, objects[k]) : i <= j
                        /\ objects'[k].state = Falling(0, holes[i].x, holes[i].y) ]_vars

\* C33 witness: the swallow pass has set falling an object that lies in no cell
\* of the grid that the capturing hole's centre lies in.
C33_Witness ==
    /\ call.op = "swallow_pass"
    /\ \E k \in DOMAIN objects, i \in DOMAIN holes :
          /\ objects[k].state = Falling(0, holes[i].x, holes[i].y)
          /\ holes[i].is_alive
          /\ <<CellOf(holes[i].x), CellOf(holes[i].y)>> \in DOMAIN cells
          /\ k \notin Elements(cells[<<CellOf(holes[i].x), CellOf(holes[i].y)>>])
          /\ \E c \in DOMAIN cells : k \in Elements(cells[c])

\* C34: an object is captured by at most one hole: once it is Falling, a swallow
\* pass (process_swallow for every hole) leaves it as it is, and from one pass
\* to the next it either stays Falling with the same target_x, target_y or
\* becomes Consumed.
C34_CapturedOnce ==
    [][ \A k \in DOMAIN objects :
            objects[k].state.tag = "Falling" =>
                /\ call'.op = "swallow_pass" => objects'[k] = objects[k]
                /\ \/ objects'[k].state = Consumed
                   \/ /\ objects'[k].state.tag = "Falling"
                      /\ objects'[k].state.target_x = objects[k].state.target_x
                      /\ objects'[k].state.target_y = objects[k].state.target_y ]_vars

\* C34 witness: a swallow pass has run over an object part of its way into the
\* first hole while the second hole, alive and elsewhere, could capture it
\* where it is.
C34_Witness ==
    /\ call.op = "swallow_pass"
    /\ \E k \in DOMAIN objects :
          /\ objects[k].state.tag = "Falling"
          /\ objects[k].state.progress > 0
          /\ objects[k].state.target_x = holes[1].x
          /\ objects[k].state.target_y = holes[1].y
          /\ <<holes[2].x, holes[2].y>> # <<holes[1].x, holes[1].y>>
          /\ holes[2].is_alive
          /\ CanCaptureAt(holes[2], objects[k].x, objects[k].y, objects[k].size)
          /\ k \in Elements(QueryRadius(cells, holes[2].x, holes[2].y, holes[2].radius * 2))

----------------------------------------------------------------------------
(* Calls of the GameClock methods on one clock *)

\* Inputs: clocks of 0.3 s and 1.0 s as GameClock::new leaves them, and a
\* Classic round with 0.3 s left
ClockSamples ==
    { ClockNew(3), ClockNew(10),
      [StartedClock(ROUND_CLASSIC) EXCEPT !.remaining = 3,
                                          !.elapsed = ROUND_CLASSIC - 3] }

\* Frame times handed to update
ClockDts == {0, 2, 5}

\* call.trues counts the update calls that returned true since the last reset
InitClock ==
    /\ \E c \in ClockSamples : sess = [state |-> "none", clock |-> c]
    /\ holes = << >>
    /\ objects = << >>
    /\ cells = EmptyCells
    /\ call = [op |-> "new", ret |-> FALSE, trues |-> 0]
    /\ steps = 0

ClockStartCall ==
    /\ steps < MaxClockCalls
    /\ sess' = [sess EXCEPT !.clock = ClockStart(@)]
    /\ call' = [call EXCEPT !.op = "start", !.ret = FALSE]
    /\ steps' = steps + 1
    /\ UNCHANGED <<holes, objects, cells>>

ClockPauseCall ==
    /\ steps < MaxClockCalls
    /\ sess' = [sess EXCEPT !.clock = ClockPause(@)]
    /\ call' = [call EXCEPT !.op = "pause", !.ret = FALSE]
    /\ steps' = steps + 1
    /\ UNCHANGED <<holes, objects, cells>>

ClockResumeCall ==
    /\ steps < MaxClockCalls
    /\ sess' = [sess EXCEPT !.clock = ClockResume(@)]
    /\ call' = [call EXCEPT !.op = "resume", !.ret = FALSE]
    /\ steps' = steps + 1
    /\ UNCHANGED <<holes, objects, cells>>

ClockResetCall ==
    /\ steps < MaxClockCalls
    /\ sess' = [sess EXCEPT !.clock = ClockReset(@)]
    /\ call' = [op |-> "reset", ret |-> FALSE, trues |-> 0]
    /\ steps' = steps + 1
    /\ UNCHANGED <<holes, objects, cells>>

ClockUpdateCall ==
    /\ steps < MaxClockCalls
    /\ \E dt \in ClockDts :
       \E r \in {ClockUpdate(sess.clock, dt)} :
          /\ sess' = [sess EXCEPT !.clock = r.clock]
          /\ call' = [op |-> "update", ret |-> r.time_up, dt |-> dt,
                      trues |-> call.trues + (IF r.time_up THEN 1 ELSE 0)]
    /\ steps' = steps + 1
    /\ UNCHANGED <<holes, objects, cells>>

NextClock ==
    \/ ClockStartCall
    \/ ClockPauseCall
    \/ ClockResumeCall
    \/ ClockResetCall
    \/ ClockUpdateCall

SpecClock == InitClock /\ [][NextClock]_vars

\* C35: GameClock: 0 <= remaining <= duration in every state; update on a clock
\* that is not running changes nothing and returns false; between two resets
\* update returns true at most once, exactly in the call in which remaining
\* goes from > 0 to 0, which leaves running = false; every later update, even
\* after resume, returns false and keeps remaining = 0.
C35_ClockContract ==
    /\ [](/\ 0 <= sess.clock.remaining
          /\ sess.clock.remaining <= sess.clock.duration
          /\ call.trues <= 1)
    /\ [][ call'.op = "update" =>
             /\ ~sess.clock.running =>
                   (sess'.clock = sess.clock /\ ~call'.ret)
             /\ call'.ret <=> (sess.clock.remaining > 0 /\ sess'.clock.remaining = 0)
             /\ call'.ret => ~sess'.clock.running
             /\ call.trues = 1 => (~call'.ret /\ sess'.clock.remaining = 0) ]_vars

\* C35 witness: the clock ran out in an earlier update, was resumed, and a
\* further update with dt > 0 has returned false.
C35_Witness ==
    /\ call.op = "update"
    /\ call.dt > 0
    /\ call.trues = 1
    /\ ~call.ret
    /\ sess.clock.remaining = 0
    /\ ~sess.clock.running
    /\ sess.clock.elapsed > sess.clock.duration

----------------------------------------------------------------------------
(* Frames of the main loop in the states Playing, Pause and Results:
   update_game, handle_pause_input and handle_results_input *)

\* GameSession::new followed by clock.start: the player and the bots at the
\* positions get_spawn_position returns, the world untouched
NewSession(mode, spawn) ==
    [holes |-> [i \in 1..(1 + BotCount(mode)) |->
                    NewHole(spawn[i][1], spawn[i][2], i = 1)],
     objects |-> << NewObject(198, 200, 4), NewObject(210, 215, 5) >>,
     clock |-> ClockStart(ClockNew(RoundDuration(mode))),
     leaderboard |-> NewLeaderboard]

\* Keys pressed in a frame of a menu: none, one, or Enter together with Down
\* or Escape
MenuKeys ==
    { {}, {"Up"}, {"Down"}, {"Escape"}, {"Enter"}, {"Down", "Enter"},
      {"Escape", "Enter"} }

\* pause_selection after the Up and Down keys of handle_pause_input
PauseSelection(sel, up, down) ==
    LET after_up == IF up THEN Max(sel - 1, 0) ELSE sel
    IN  IF down THEN Min(after_up + 1, 2) ELSE after_up

\* handle_pause_input, one frame in the state Pause: Up and Down move the
\* selection; Escape resumes; Enter resumes, starts a new session of the
\* selected mode, or drops the session and goes to the menu.  The keys are
\* handled in the order of the code, so that Enter on "Restart" or "Quit"
\* overrides an Escape pressed in the same frame.  In a new session the bots
\* all get the same spawn position.
HandlePauseInput ==
    /\ sess.state = "Pause"
    /\ \E keys \in MenuKeys :
       \E escape \in {"Escape" \in keys}, enter \in {"Enter" \in keys} :
       \E sel \in {PauseSelection(sess.pause_selection, "Up" \in keys, "Down" \in keys)} :
          IF enter /\ sel = 2
          THEN /\ sess' = [state |-> "Menu", mode |-> sess.mode, pause_selection |-> sel]
               /\ holes' = << >>
               /\ objects' = << >>
               /\ cells' = EmptyCells
               /\ call' = [op |-> "quit"]
          ELSE IF enter /\ sel = 1
          THEN \E at \in SpawnPoints, bots_at \in SpawnPoints :
               \E spawn \in {[i \in 1..(1 + BotCount(sess.mode)) |->
                                  IF i = 1 THEN at ELSE bots_at]} :
               \E new \in {NewSession(sess.mode, spawn)} :
                  /\ sess' = [sess EXCEPT !.state = "Playing",
                                          !.game_over = FALSE,
                                          !.clock = new.clock,
                                          !.leaderboard = new.leaderboard,
                                          !.pause_selection = sel]
                  /\ holes' = new.holes
                  /\ objects' = new.objects
                  /\ cells' = Build(new.objects)
                  /\ call' = [op |-> "restart"]
          ELSE IF escape \/ enter
          THEN /\ sess' = [sess EXCEPT !.clock = ClockResume(@), !.state = "Playing",
                                       !.pause_selection = sel]
               /\ call' = [op |-> "resume"]
               /\ UNCHANGED <<holes, objects, cells>>
          ELSE /\ sess' = [sess EXCEPT !.pause_selection = sel]
               /\ call' = [op |-> "pause_frame"]
               /\ UNCHANGED <<holes, objects, cells>>
    /\ UNCHANGED steps

\* the Results arm of the main loop, one frame: results_time advances, then
\* handle_results_input: Up and Down move the selection; Enter starts a new
\* session of the selected mode, or drops the session and goes to the mode
\* selection or to the menu
ResultsFrame ==
    /\ sess.state = "Results"
    /\ sess.results_time < MaxResultsTime
    /\ \E dt \in DtSet, keys \in MenuKeys :
       \E enter \in {"Enter" \in keys} :
       \E sel \in {PauseSelection(sess.results_selection, "Up" \in keys, "Down" \in keys)} :
          IF enter /\ sel = 0
          THEN \E at \in SpawnPoints, bots_at \in SpawnPoints :
               \E spawn \in {[i \in 1..(1 + BotCount(sess.mode)) |->
                                  IF i = 1 THEN at ELSE bots_at]} :
               \E new \in {NewSession(sess.mode, spawn)} :
                  /\ sess' = [sess EXCEPT !.state = "Playing",
                                          !.game_over = FALSE,
                                          !.clock = new.clock,
                                          !.leaderboard = new.leaderboard,
                                          !.results_selection = sel,
                                          !.results_time = 0]
                  /\ holes' = new.holes
                  /\ objects' = new.objects
                  /\ cells' = Build(new.objects)
                  /\ call' = [op |-> "restart"]
          ELSE IF enter
          THEN /\ sess' = [state |-> IF sel = 1 THEN "ModeSelect" ELSE "Menu",
                           mode |-> sess.mode, pause_selection |-> sess.pause_selection]
               /\ holes' = << >>
               /\ objects' = << >>
               /\ cells' = EmptyCells
               /\ call' = [op |-> "quit"]
          ELSE /\ sess' = [sess EXCEPT !.results_selection = sel,
                                       !.results_time = @ + dt]
               /\ call' = [op |-> "results_frame", dt |-> dt]
               /\ UNCHANGED <<holes, objects, cells>>
    /\ UNCHANGED steps

NextApp == UpdateGame \/ HandlePauseInput \/ ResultsFrame

SpecApp == Init /\ [][NextApp]_vars

\* the session: every field of GameSession that the model holds
C36_Session == <<holes, objects, sess.clock, sess.leaderboard, sess.game_over, sess.mode>>

C37_RanOut == sess.clock.remaining > 0 /\ sess'.clock.remaining = 0

\* C37: a frame of update_game sets game_over, and goes to Results in the same
\* frame, exactly when the clock ran out in it, or the mode is Battle and at
\* most one hole is alive at its end, or the mode is Solo and every object is
\* consumed, or the player is dead at its end in a mode without respawn; in
\* Classic the player's death alone does not end the session; a session that
\* is over is in the state Results, where update_game is not called, and
\* nothing of it changes from frame to frame.
C37_EndOfSession ==
    /\ [](sess.state \in {"Playing", "Pause", "Results"} =>
             (sess.game_over <=> sess.state = "Results"))
    /\ [][ /\ call'.op = "update_game" =>
                 /\ sess'.game_over <=>
                       \/ C37_RanOut
                       \/ sess.mode = "Battle" /\ AliveCount(holes') <= 1
                       \/ /\ sess.mode = "Solo"
                          /\ Len(objects') > 0
                          /\ \A k \in DOMAIN objects' : objects'[k].consumed
                       \/ ~holes'[sess.player_idx].is_alive /\ sess.mode # "Classic"
                 /\ (sess.mode = "Classic" /\ ~C37_RanOut) => ~sess'.game_over
           /\ (sess.game_over /\ call'.op = "results_frame") =>
                 /\ sess'.game_over
                 /\ sess'.state = "Results"
                 /\ C36_Session' = C36_Session ]_vars

\* C37 witness: a Classic session goes on, with time on the clock, after a
\* frame in which the player was eliminated.
C37_Witness ==
    /\ call.op = "update_game"
    /\ sess.mode = "Classic"
    /\ sess.state = "Playing"
    /\ ~sess.game_over
    /\ sess.clock.remaining > 0
    /\ ~holes[sess.player_idx].is_alive
    /\ \E k \in DOMAIN call.eliminations : call.eliminations[k][2] = sess.player_idx

\* C38: rank_change is computed only against the ranking of the immediately
\* preceding update: an entry whose hole had no entry in the preceding update
\* (it was dead then, or this is its first appearance) reports rank_change = 0,
\* whatever rank it held in older updates.
C38_AgainstPrecedingOnly ==
    [][ call'.op = "leaderboard_update" =>
          \A k \in DOMAIN sess'.leaderboard.entries :
              sess'.leaderboard.entries[k].id
                    \notin {sess.leaderboard.entries[j].id : j \in DOMAIN sess.leaderboard.entries}
                => sess'.leaderboard.entries[k].rank_change = 0 ]_vars

----------------------------------------------------------------------------
(* A Classic session played until its clock runs out *)

\* Inputs: the player large or fresh, each bot of radius 60 or fresh, all at
\* the first spawn point
LiveHoles ==
    { <<p>> \o bots :
        p \in { SessionHole(200, 200, TRUE, PI100 * 100 * 100, 0),
                NewHole(200, 200, TRUE) },
        bots \in [1..MaxBots -> { SessionHole(200, 200, FALSE, PI100 * 60 * 60, 0),
                                  NewHole(200, 200, FALSE) }] }

\* Frames of 0.5 s and of 1.0 s with no key held, and of 0.5 s with the
\* player steering right and the bots left
LiveInputs ==
    { [dt |-> 5, keys |-> {}, shift |-> FALSE, dir |-> <<0, 0>>],
      [dt |-> 10, keys |-> {}, shift |-> FALSE, dir |-> <<0, 0>>],
      [dt |-> 5, keys |-> {"D"}, shift |-> FALSE, dir |-> <<-1, 0>>] }

\* The round has 5.0 s left
InitLive ==
    /\ holes \in LiveHoles
    /\ sess = [mode |-> "Classic", state |-> "Playing", game_over |-> FALSE,
               player_idx |-> 1,
               clock |-> [StartedClock(ROUND_CLASSIC) EXCEPT
                             !.remaining = 50, !.elapsed = ROUND_CLASSIC - 50],
               leaderboard |-> LeaderboardUpdate(NewLeaderboard, holes),
               pause_selection |-> 0, results_selection |-> 0,
               results_time |-> 0]
    /\ objects \in SessionWorlds
    /\ cells = Build(objects)
    /\ call = NoCall
    /\ steps = 0

\* update_game in a session played to its end
UpdateGameLive == UpdateGameWithin(MaxLiveFrames, LiveInputs)

NextLive == UpdateGameLive \/ ResumeGame

\* A frame is simulated: update_game runs its passes. The frame counter
\* advances in exactly these steps (pausing and resuming leave it alone), and
\* the passes can run whenever the session is being played, so this names the
\* simulated frames of UpdateGameLive by their guard and their effect on steps.
SimulatedFrame ==
    /\ sess.state = "Playing"
    /\ ~sess.game_over
    /\ steps < MaxLiveFrames
    /\ steps' = steps + 1

\* Frames keep being simulated: a paused session is resumed, and whenever the
\* session is being played again and again, a frame is simulated eventually
SpecLive ==
    InitLive /\ [][NextLive]_vars /\ SF_steps(SimulatedFrame) /\ WF_vars(ResumeGame)

\* C39: in a Classic session in which frames with dt > 0 keep being simulated
\* until game over, a hole that is eliminated leaves the frame with
\* respawn_timer = 3.0 s, stays dead while the frame times since its death add up
\* to less than 3.0 s, is alive at the end of the frame in which they reach 3.0 s,
\* and so every dead hole is eventually alive again unless the session ends
\* first; this holds for a hole that is a loser or a winner several times in
\* the frame of its death.
C39_DeadHolesReturn ==
    /\ [][ call'.op = "update_game" =>
             \A i \in DOMAIN holes :
                 /\ (holes[i].is_alive /\ ~holes'[i].is_alive) =>
                       holes'[i].respawn_timer = RESPAWN_TIME_CLASSIC
                 /\ (~holes[i].is_alive /\ holes[i].respawn_timer > call'.dt) =>
                       /\ ~holes'[i].is_alive
                       /\ holes'[i].respawn_timer = holes[i].respawn_timer - call'.dt
                 /\ (~holes[i].is_alive /\ holes[i].respawn_timer <= call'.dt) =>
                       holes'[i].is_alive ]_vars
    /\ \A i \in 1..(1 + MaxBots) :
          (~holes[i].is_alive) ~> (holes[i].is_alive \/ sess.game_over)

\* C39 witness: two holes that died in the same frame are alive again while
\* the session goes on: one of them lost to the largest hole and also won
\* against the other in that frame (it has an elimination to its name and more
\* than the initial area), the other lost twice.
C39_Witness ==
    /\ call.op = "update_game"
    /\ ~sess.game_over
    /\ call.eliminations = << >>
    /\ \E i, j \in DOMAIN holes :
          /\ i # j
          /\ holes[i].is_alive /\ holes[i].invincible > 0
          /\ holes[i].eliminations = 1
          /\ holes[i].area > InitialArea
          /\ holes[j].is_alive /\ holes[j].invincible > 0
          /\ holes[j].eliminations = 0
          /\ holes[j].area = InitialArea

----------------------------------------------------------------------------
(* A Battle session in which a hole dies while an object it captured falls *)

\* Inputs: the player of radius 100 or fresh on the first spawn point, a bot
\* of radius 60 close enough to be eaten by the large player, a second bot
\* far away, fresh or of radius 40
FallHoles ==
    { << p, SessionHole(290, 200, FALSE, PI100 * 60 * 60, 0), b >> :
        p \in { SessionHole(200, 200, TRUE, PI100 * 100 * 100, 0),
                NewHole(200, 200, TRUE) },
        b \in { NewHole(600, 600, FALSE),
                SessionHole(600, 600, FALSE, PI100 * 40 * 40, 0) } }

\* Inputs: a hydrant that only the first bot reaches, and a trash can by the
\* player, on the ground or part-way into a fall
FallWorlds ==
    { << NewObject(350, 200, 4), o >> :
        o \in { NewObject(210, 215, 5),
                [StartFalling(NewObject(210, 215, 5), 200, 200) EXCEPT
                    !.state.progress = 3] } }

\* Frames of 0.1 s and of 0.2 s with no key held, and of 0.1 s with the player
\* steering left and the bots right
FallInputs ==
    { [dt |-> 1, keys |-> {}, shift |-> FALSE, dir |-> <<0, 0>>],
      [dt |-> 2, keys |-> {}, shift |-> FALSE, dir |-> <<0, 0>>],
      [dt |-> 1, keys |-> {"A"}, shift |-> FALSE, dir |-> <<1, 0>>] }

\* The round has 0.6 s left
InitFall ==
    /\ holes \in FallHoles
    /\ sess = [mode |-> "Battle", state |-> "Playing", game_over |-> FALSE,
               player_idx |-> 1,
               clock |-> [StartedClock(ROUND_BATTLE) EXCEPT
                             !.remaining = 6, !.elapsed = ROUND_BATTLE - 6],
               leaderboard |-> LeaderboardUpdate(NewLeaderboard, holes),
               pause_selection |-> 0, results_selection |-> 0,
               results_time |-> 0]
    /\ objects \in FallWorlds
    /\ cells = Build(objects)
    /\ call = NoCall
    /\ steps = 0

\* update_game in that session
UpdateGameFall == UpdateGameWithin(MaxLiveFrames, FallInputs)

NextFall == UpdateGameFall \/ ResumeGame

\* Frames keep being simulated, as in SpecLive
SpecFall ==
    InitFall /\ [][NextFall]_vars /\ SF_steps(SimulatedFrame) /\ WF_vars(ResumeGame)

RECURSIVE C40_AreaFrom(_, _)
\* the sum of area over the holes from index i on
C40_AreaFrom(hs, i) ==
    IF i > Len(hs) THEN 0 ELSE hs[i].area + C40_AreaFrom(hs, i + 1)

RECURSIVE C40_ScoreFrom(_, _)
\* the sum of score over the holes from index i on
C40_ScoreFrom(hs, i) ==
    IF i > Len(hs) THEN 0 ELSE hs[i].score + C40_ScoreFrom(hs, i + 1)

RECURSIVE C40_MassFrom(_, _, _)
\* the growth due for the objects from index k on that are Consumed in after
\* and were not in before
C40_MassFrom(before, after, k) ==
    IF k > Len(before) THEN 0
    ELSE (IF before[k].state.tag # "Consumed" /\ after[k].state.tag = "Consumed"
          THEN before[k].mass * GROWTH_MULTIPLIER ELSE 0)
         + C40_MassFrom(before, after, k + 1)

\* C40: in a session in which frames with dt > 0 keep being simulated until
\* game over, an object that is Falling stays Falling with more progress or
\* becomes Consumed in every frame, a Consumed object stays Consumed, the
\* completions of a frame are credited by one grow call each (the scores rise
\* by their number in all and, in a frame without eliminations, the areas by
\* their mass * GROWTH_MULTIPLIER in all), and every Falling object is
\* eventually Consumed unless the session ends first; this holds when the hole
\* that captured it has died for good in the meantime.
C40_FallsComplete ==
    /\ [][ call'.op = "update_game" =>
             /\ \A k \in DOMAIN objects :
                   /\ objects[k].state.tag = "Falling" =>
                         \/ objects'[k].state.tag = "Consumed"
                         \/ /\ objects'[k].state.tag = "Falling"
                            /\ objects'[k].state.progress > objects[k].state.progress
                   /\ objects[k].state.tag = "Consumed" =>
                         objects'[k].state.tag = "Consumed"
             /\ C40_ScoreFrom(holes', 1) - C40_ScoreFrom(holes, 1)
                   = Cardinality({k \in DOMAIN objects :
                                     /\ objects[k].state.tag # "Consumed"
                                     /\ objects'[k].state.tag = "Consumed"})
             /\ call'.eliminations = << >> =>
                   C40_AreaFrom(holes', 1) - C40_AreaFrom(holes, 1)
                      = C40_MassFrom(objects, objects', 1) ]_vars
    /\ \A k \in 1..2 :
          (objects[k].state.tag = "Falling")
             ~> (objects[k].state.tag = "Consumed" \/ sess.game_over)

\* C40 witness: the hydrant that only the first bot could capture is Consumed
\* and credited to another hole, after that bot was eaten by the player while
\* the hydrant was falling; the session goes on.
C40_Witness ==
    /\ call.op = "update_game"
    /\ ~sess.game_over
    /\ objects[1].state.tag = "Consumed"
    /\ ~holes[2].is_alive
    /\ holes[2].score = 0
    /\ holes[1].eliminations = 1
    /\ C40_ScoreFrom(holes, 1) >= 1

=============================================================================
